---- MODULE Spec2Model ----
(***************************************************************************)
(* Model of fieldopt's quadric sampling domain (geometry/domains.py), the  *)
(* geometry helpers it calls (geometry/geometry.py) and the optimizer      *)
(* factories that read the domain's bounds (optimization/grid.py,          *)
(* optimization/bayes_moe.py).                                             *)
(*                                                                         *)
(* Numbers.  The code computes in IEEE double precision.  The model        *)
(* computes exactly, over the rationals extended with +inf, -inf and NaN:  *)
(* a number is a pair <<n, d>> with d >= 0; d > 0 is the reduced fraction  *)
(* n/d, <<1,0>> is +inf, <<-1,0>> is -inf and <<0,0>> is NaN.  Division by *)
(* zero therefore behaves as numpy's does (x/0 = +-inf, 0/0 = NaN, NaN is  *)
(* absorbing) and nothing is rounded.  Square roots and the trigonometric  *)
(* functions are taken only of arguments whose result is rational; any     *)
(* other argument stops the evaluation instead of yielding a wrong value.  *)
(***************************************************************************)
EXTENDS Integers, Sequences, FiniteSets, TLC

----------------------------------------------------------------------------
(* Extended rational arithmetic *)

Abs(i) == IF i < 0 THEN -i ELSE i

Sign(i) == IF i < 0 THEN -1 ELSE IF i > 0 THEN 1 ELSE 0

RECURSIVE Gcd(_, _)
Gcd(a, b) == IF b = 0 THEN a ELSE Gcd(b, a % b)

\* the number n/d, reduced; d = 0 gives +inf, -inf or NaN by the sign of n
Q(n, d) ==
    IF d = 0 THEN <<Sign(n), 0>>
    ELSE LET s == IF d < 0 THEN -1 ELSE 1
             g == Gcd(Abs(n), Abs(d))
         IN  <<(s * n) \div g, (s * d) \div g>>

Zero == <<0, 1>>
One == <<1, 1>>
NaN == <<0, 0>>
PosInf == <<1, 0>>
NegInf == <<-1, 0>>

IsFinite(a) == a[2] > 0
IsNaN(a) == a = NaN

RNeg(a) == <<-a[1], a[2]>>

RAdd(a, b) ==
    IF a[2] = 0 /\ b[2] = 0
    THEN (IF a = b THEN a ELSE NaN)
    ELSE IF a[2] = 0 THEN a
    ELSE IF b[2] = 0 THEN b
    ELSE LET g == Gcd(a[2], b[2])
         IN  Q(a[1] * (b[2] \div g) + b[1] * (a[2] \div g), (a[2] \div g) * b[2])

RSub(a, b) == RAdd(a, RNeg(b))

RMul(a, b) ==
    IF a[2] = 0 \/ b[2] = 0
    THEN <<Sign(a[1]) * Sign(b[1]), 0>>
    ELSE LET g1 == Gcd(Abs(a[1]), b[2])
             g2 == Gcd(Abs(b[1]), a[2])
         IN  IF a[1] = 0 \/ b[1] = 0 THEN Zero
             ELSE <<(a[1] \div g1) * (b[1] \div g2), (a[2] \div g2) * (b[2] \div g1)>>

\* a / b as floating point divides: x/0 is an infinity, 0/0 and inf/inf are NaN
RDiv(a, b) ==
    IF b[2] = 0 THEN (IF a[2] = 0 THEN NaN ELSE IF b = NaN THEN NaN ELSE Zero)
    ELSE IF b[1] = 0 THEN <<Sign(a[1]), 0>>
    ELSE RMul(a, Q(b[2], b[1]))

\* a < b; every comparison with NaN is false
RLess(a, b) ==
    IF a = NaN \/ b = NaN THEN FALSE
    ELSE IF a[2] = 0 \/ b[2] = 0
         THEN (IF a[2] = 0 /\ b[2] = 0 THEN a[1] < b[1]
               ELSE IF a[2] = 0 THEN a[1] < 0
               ELSE b[1] > 0)
    ELSE a[1] * b[2] < b[1] * a[2]

\* the exact root of a perfect square; no value for any other integer
ISqrt(n) == CHOOSE r \in 0..n : r * r = n

\* sqrt of an extended rational whose root is rational
RSqrt(a) ==
    IF a[2] = 0 THEN (IF a = PosInf THEN PosInf ELSE NaN)
    ELSE IF a[1] < 0 THEN NaN
    ELSE <<ISqrt(a[1]), ISqrt(a[2])>>

----------------------------------------------------------------------------
(* Vectors are tuples of numbers, matrices tuples of rows (numpy arrays) *)

\* the sequence s as a tuple whose elements are all computed, once
Seq1(s) == s \o <<>>

RECURSIVE RSum(_)
RSum(s) == IF Len(s) = 0 THEN Zero ELSE RAdd(Head(s), RSum(Tail(s)))

Dot(u, v) == RSum(Seq1([i \in 1..Len(u) |-> RMul(u[i], v[i])]))

VAdd(u, v) == Seq1([i \in 1..Len(u) |-> RAdd(u[i], v[i])])
VSub(u, v) == Seq1([i \in 1..Len(u) |-> RSub(u[i], v[i])])
VNeg(u) == Seq1([i \in 1..Len(u) |-> RNeg(u[i])])
VScale(u, a) == Seq1([i \in 1..Len(u) |-> RMul(u[i], a)])
VDivS(u, a) == Seq1([i \in 1..Len(u) |-> RDiv(u[i], a)])

\* np.cross
Cross(u, v) ==
    <<RSub(RMul(u[2], v[3]), RMul(u[3], v[2])),
      RSub(RMul(u[3], v[1]), RMul(u[1], v[3])),
      RSub(RMul(u[1], v[2]), RMul(u[2], v[1]))>>

\* np.linalg.norm of a vector
VNorm(u) == RSqrt(Dot(u, u))

\* np.linalg.norm(d) < s, decided without taking the root: for s > 0 it is
\* d.d < s*s, for s <= 0 it is false (a norm is never negative)
NormLess(d, s) == RLess(Zero, s) /\ RLess(Dot(d, d), RMul(s, s))

VFinite(u) == \A i \in 1..Len(u) : IsFinite(u[i])
MFinite(m) == \A i \in 1..Len(m) : VFinite(m[i])

Col(m, j) == Seq1([i \in 1..Len(m) |-> m[i][j]])
Transpose(m) == Seq1([j \in 1..Len(m[1]) |-> Col(m, j)])
MatMul(a, b) == Seq1([i \in 1..Len(a) |-> Seq1([j \in 1..Len(b[1]) |-> Dot(a[i], Col(b, j))])])
MatVec(a, v) == Seq1([i \in 1..Len(a) |-> Dot(a[i], v)])
MAdd(a, b) == Seq1([i \in 1..Len(a) |-> VAdd(a[i], b[i])])
MScale(a, s) == Seq1([i \in 1..Len(a) |-> VScale(a[i], s)])
MDivS(a, s) == Seq1([i \in 1..Len(a) |-> VDivS(a[i], s)])

\* np.eye(n)
Eye(n) == Seq1([i \in 1..n |-> Seq1([j \in 1..n |-> IF i = j THEN One ELSE Zero])])

\* the 3x3 block m[:3, :3] and the translation column m[:3, 3] of a 4x4 array
Block3(m) == Seq1([i \in 1..3 |-> Seq1([j \in 1..3 |-> m[i][j]])])
Col4(m) == Seq1([i \in 1..3 |-> m[i][4]])

\* m with m[:3, :3] = b written in place
SetBlock3(m, b) == Seq1([i \in 1..4 |-> Seq1([j \in 1..4 |-> IF i <= 3 /\ j <= 3 THEN b[i][j] ELSE m[i][j]])])

\* m with m[:3, 3] = c written in place
SetCol4(m, c) == Seq1([i \in 1..4 |-> Seq1([j \in 1..4 |-> IF i <= 3 /\ j = 4 THEN c[i] ELSE m[i][j]])])

----------------------------------------------------------------------------
(* geometry.py *)

\* skew with the sign of every entry exchanged: the matrix of x -> x x v
skew_transposed(vector) ==
    <<<<Zero, vector[3], RNeg(vector[2])>>,
      <<RNeg(vector[3]), Zero, vector[1]>>,
      <<vector[2], RNeg(vector[1]), Zero>>>>

\* skew(vector), vector being an np.ndarray: the entries are read with .item()
skew(vector) ==
    <<<<Zero, RNeg(vector[3]), vector[2]>>,
      <<vector[3], Zero, RNeg(vector[1])>>,
      <<RNeg(vector[2]), vector[1], Zero>>>>

\* skew(vector), vector being any other sequence: the entries are read by index
skew_sequence(vector) ==
    <<<<Zero, RNeg(vector[3]), vector[2]>>,
      <<vector[3], Zero, RNeg(vector[1])>>,
      <<RNeg(vector[2]), vector[1], Zero>>>>

\* affine(A, x): x is a sequence of 3D points
affine(A, x) ==
    Seq1([k \in 1..Len(x) |->
        LET h == <<x[k][1], x[k][2], x[k][3], One>>
            Ah == MatVec(A, h)
        IN  <<Ah[1], Ah[2], Ah[3]>>])

\* rotate_vec2vec turning the other way round, about v2 x v1
rotate_vec2vec_reversed(v1, v2) ==
    LET R(n, sinv, cosv) ==
            MAdd(MAdd(Eye(3), skew(n)),
                 MDivS(MScale(MatMul(skew(n), skew(n)), RSub(One, cosv)),
                       RMul(sinv, sinv)))
        about(n) == R(n, VNorm(n), Dot(v1, v2))
    IN  about(Cross(v2, v1))

\* rotate_vec2vec: there is no guard on sinv, so n = 0 gives 0/0 in every entry
rotate_vec2vec(v1, v2) ==
    LET R(n, sinv, cosv) ==
            MAdd(MAdd(Eye(3), skew(n)),
                 MDivS(MScale(MatMul(skew(n), skew(n)), RSub(One, cosv)),
                       RMul(sinv, sinv)))
        about(n) == R(n, VNorm(n), Dot(v1, v2))
    IN  about(Cross(v1, v2))

\* Gauss-Jordan elimination on the augmented n x (n+1) system M, from column k:
\* [ok |-> TRUE, x |-> solution] or [ok |-> FALSE] when the matrix is singular
RECURSIVE GaussJordan(_, _, _)
GaussJordan(M, n, k) ==
    IF k > n THEN [ok |-> TRUE, x |-> Seq1([i \in 1..n |-> M[i][n + 1]])]
    ELSE LET piv == {r \in k..n : M[r][k] # Zero}
         IN  IF piv = {} THEN [ok |-> FALSE, x |-> <<>>]
             ELSE LET swapped(r) ==
                          Seq1([i \in 1..n |-> IF i = k THEN M[r] ELSE IF i = r THEN M[k] ELSE M[i]])
                      eliminated(Ms, prow) ==
                          Seq1([i \in 1..n |->
                              IF i = k THEN prow
                              ELSE VSub(Ms[i], VScale(prow, Ms[i][k]))])
                      pivoted(Ms) == eliminated(Ms, VDivS(Ms[k], Ms[k][k]))
                  IN  GaussJordan(pivoted(swapped(CHOOSE p \in piv : \A o \in piv : p <= o)),
                                  n, k + 1)

\* scipy.linalg.lstsq(A, b)[0]: ValueError on a NaN or an infinity (check_finite);
\* otherwise the least-squares solution of minimum norm, WITHOUT any error when A
\* is rank-deficient or has fewer rows than columns.  With full column rank it is
\* the solution of the normal equations A'A x = A'b; when A'b = 0 it is x = 0
\* whatever the rank.  (A rank-deficient A with A'b # 0 has no value here.)
lstsq(A, b) ==
    IF ~(MFinite(A) /\ VFinite(b)) THEN [ok |-> FALSE, exc |-> "ValueError", x |-> <<>>]
    ELSE IF Len(A) = 0 THEN [ok |-> TRUE, exc |-> "", x |-> Seq1([i \in 1..6 |-> Zero])]
    ELSE LET n == Len(A[1])
             solution(sol) == [ok |-> TRUE, exc |-> "", x |-> CHOOSE x \in {sol.x} : sol.ok]
             aug(AtA, Atb) == Seq1([i \in 1..n |-> AtA[i] \o <<Atb[i]>>])
             normal(At, Atb) ==
                 IF \A i \in 1..n : Atb[i] = Zero
                 THEN [ok |-> TRUE, exc |-> "", x |-> Seq1([i \in 1..n |-> Zero])]
                 ELSE solution(GaussJordan(aug(MatMul(At, A), Atb), n, 1))
             transposed(At) == normal(At, MatVec(At, b))
         IN  transposed(Transpose(A))

\* quad_fit(X, b): rows [1, x, y, xy, x^2, y^2]
quad_fit(X, b) ==
    LET A == Seq1([k \in 1..Len(X) |->
                 <<One, X[k][1], X[k][2], RMul(X[k][1], X[k][2]),
                   RMul(X[k][1], X[k][1]), RMul(X[k][2], X[k][2])>>])
        fitted(r) == [ok |-> r.ok, exc |-> r.exc, C |-> r.x]
    IN  fitted(lstsq(A, b))

Two == <<2, 1>>

\* np.linalg.eig(P)[1] of the symmetric 2x2 matrix P: LinAlgError on a NaN or an
\* infinity; for a diagonal P the eigenvectors are the unit vectors, in order.
\* (A non-diagonal P has irrational eigenvectors in general and no value here.)
eigvecs(P) ==
    IF ~MFinite(P) THEN [ok |-> FALSE, exc |-> "LinAlgError", V |-> <<>>]
    ELSE [ok |-> TRUE, exc |-> "",
          V |-> CHOOSE V \in {Eye(2)} : P[1][2] = Zero /\ P[2][1] = Zero]

\* compute_principal_dir taking the cross product of the tangents in the other order
compute_principal_dir_swapped(x, y, C) ==
    LET r_x == <<One, Zero, RAdd(RAdd(RMul(RMul(Two, C[5]), x), C[2]), RMul(C[4], y))>>
        r_y == <<Zero, One, RAdd(RAdd(RMul(RMul(Two, C[6]), y), C[3]), RMul(C[4], x))>>
        r_xx == <<Zero, Zero, RMul(Two, C[5])>>
        r_yy == <<Zero, Zero, RMul(Two, C[6])>>
        r_xy == <<Zero, Zero, C[4]>>
        directions(n, e) ==
            IF ~e.ok THEN [ok |-> FALSE, exc |-> e.exc, v1 |-> <<>>, v2 |-> <<>>, n |-> <<>>]
            ELSE [ok |-> TRUE, exc |-> "",
                  v1 |-> <<e.V[1][1], e.V[2][1], Zero>>,
                  v2 |-> <<e.V[1][2], e.V[2][2], Zero>>,
                  n |-> n]
        P(L, M, N) == <<<<L, M>>, <<M, N>>>>
        forms(n) == directions(n, eigvecs(P(Dot(r_xx, n), Dot(r_xy, n), Dot(r_yy, n))))
        normal(r_x_cross_y) == forms(VDivS(r_x_cross_y, VNorm(r_x_cross_y)))
    IN  normal(Cross(r_y, r_x))

\* compute_principal_dir(x, y, C): (V[:,0], V[:,1], n)
compute_principal_dir(x, y, C) ==
    LET r_x == <<One, Zero, RAdd(RAdd(RMul(RMul(Two, C[5]), x), C[2]), RMul(C[4], y))>>
        r_y == <<Zero, One, RAdd(RAdd(RMul(RMul(Two, C[6]), y), C[3]), RMul(C[4], x))>>
        r_xx == <<Zero, Zero, RMul(Two, C[5])>>
        r_yy == <<Zero, Zero, RMul(Two, C[6])>>
        r_xy == <<Zero, Zero, C[4]>>
        directions(n, e) ==
            IF ~e.ok THEN [ok |-> FALSE, exc |-> e.exc, v1 |-> <<>>, v2 |-> <<>>, n |-> <<>>]
            ELSE [ok |-> TRUE, exc |-> "",
                  v1 |-> <<e.V[1][1], e.V[2][1], Zero>>,
                  v2 |-> <<e.V[1][2], e.V[2][2], Zero>>,
                  n |-> n]
        P(L, M, N) == <<<<L, M>>, <<M, N>>>>
        forms(n) == directions(n, eigvecs(P(Dot(r_xx, n), Dot(r_xy, n), Dot(r_yy, n))))
        normal(r_x_cross_y) == forms(VDivS(r_x_cross_y, VNorm(r_x_cross_y)))
    IN  normal(Cross(r_x, r_y))

\* the cosine without its sign: 1 at the half turn
CosQuarter_unsigned(q) ==
    IF ~IsFinite(q) THEN NaN
    ELSE LET k == CHOOSE k \in {q[1] % 4} : q[2] = 1
         IN  IF k = 0 THEN One ELSE IF k = 2 THEN One ELSE Zero

\* np.cos and np.sin of q * pi/2, exact when q is an integer number of quarter
\* turns (no value for any other finite q); NaN for a NaN or an infinity
CosQuarter(q) ==
    IF ~IsFinite(q) THEN NaN
    ELSE LET k == CHOOSE k \in {q[1] % 4} : q[2] = 1
         IN  IF k = 0 THEN One ELSE IF k = 2 THEN RNeg(One) ELSE Zero

SinQuarter(q) ==
    IF ~IsFinite(q) THEN NaN
    ELSE LET k == CHOOSE k \in {q[1] % 4} : q[2] = 1
         IN  IF k = 1 THEN One ELSE IF k = 3 THEN RNeg(One) ELSE Zero

\* interpolate_angle with the cosine and the sine exchanged
interpolate_angle_swapped(u, v, t, l) ==
    LET quarter == RDiv(t, l)
        p2 == VAdd(VScale(u, SinQuarter(quarter)), VScale(v, CosQuarter(quarter)))
    IN  p2 \o <<Zero>>

\* interpolate_angle(u, v, t, l): theta = (t / l) * (pi / 2); np.r_[..., 0]
\* appends a component 0 to the interpolated vector
interpolate_angle(u, v, t, l) ==
    LET quarter == RDiv(t, l)
        p2 == VAdd(VScale(u, CosQuarter(quarter)), VScale(v, SinQuarter(quarter)))
    IN  p2 \o <<Zero>>

DefaultPeriod == <<90, 1>>

quadratic_surf(x, y, C) ==
    RAdd(RAdd(RAdd(RAdd(RAdd(C[1], RMul(C[2], x)), RMul(C[3], y)),
                   RMul(RMul(C[4], x), y)),
              RMul(RMul(C[5], x), x)),
         RMul(RMul(C[6], y), y))

quadratic_surf_position(x, y, C) == <<x, y, quadratic_surf(x, y, C)>>

\* quadratic_surf_rotation returning the interpolated direction as it is, without
\* rotating it from the +Z frame into the frame of the normal
quadratic_surf_rotation_unrotated(x, y, t, C) ==
    LET rotated(d) ==
            IF ~d.ok THEN [ok |-> FALSE, exc |-> d.exc, pp |-> <<>>, n |-> <<>>]
            ELSE [ok |-> TRUE, exc |-> "",
                  pp |-> interpolate_angle(<<d.v1[1], d.v1[2]>>, <<d.v2[1], d.v2[2]>>,
                                           t, DefaultPeriod),
                  n |-> d.n]
    IN  rotated(compute_principal_dir(x, y, C))

\* quadratic_surf_rotation(x, y, t, C): (pp, n)
quadratic_surf_rotation(x, y, t, C) ==
    LET z == <<Zero, Zero, One>>
        rotated(d) ==
            IF ~d.ok THEN [ok |-> FALSE, exc |-> d.exc, pp |-> <<>>, n |-> <<>>]
            ELSE LET p == interpolate_angle(<<d.v1[1], d.v1[2]>>, <<d.v2[1], d.v2[2]>>,
                                            t, DefaultPeriod)
                     R == rotate_vec2vec(z, d.n)
                 IN  [ok |-> TRUE, exc |-> "", pp |-> MatVec(R, p), n |-> d.n]
    IN  rotated(compute_principal_dir(x, y, C))

\* define_coil_orientation with the cross product taken the other way round,
\* x = z x y
define_coil_orientation_lefthanded(loc, rot, n) ==
    LET matsimnibs(x, y, z, c) ==
            <<<<x[1], y[1], z[1], c[1]>>,
              <<x[2], y[2], z[2], c[2]>>,
              <<x[3], y[3], z[3], c[3]>>,
              <<Zero, Zero, Zero, One>>>>
        axes(y, z) == matsimnibs(Cross(z, y), y, z, loc)
    IN  axes(VDivS(rot, VNorm(rot)), VDivS(n, VNorm(n)))

\* define_coil_orientation(loc, rot, n): the 4x4 matsimnibs array
define_coil_orientation(loc, rot, n) ==
    LET matsimnibs(x, y, z, c) ==
            <<<<x[1], y[1], z[1], c[1]>>,
              <<x[2], y[2], z[2], c[2]>>,
              <<x[3], y[3], z[3], c[3]>>,
              <<Zero, Zero, Zero, One>>>>
        axes(y, z) == matsimnibs(Cross(y, z), y, z, loc)
    IN  axes(VDivS(rot, VNorm(rot)), VDivS(n, VNorm(n)))

----------------------------------------------------------------------------
(* The mesh collaborator (fieldopt.geometry.mesh).  A mesh is a record     *)
(* [coords, vnormals]: coords[i] is the position of node i and vnormals[i] *)
(* the normal estimate the collaborator derives for node i from the        *)
(* triangles around it.                                                    *)

\* index of the node nearest to p (the first of them, if several are as near)
closest_index(p, coords) ==
    LET sq(e) == Dot(e, e)
        first_least(d) ==
            CHOOSE i \in 1..Len(d) :
                \A j \in 1..Len(d) : IF j < i THEN RLess(d[i], d[j]) ELSE ~RLess(d[j], d[i])
    IN  first_least(Seq1([i \in 1..Len(coords) |-> sq(VSub(coords[i], p))]))

\* mg.closest_point2surf(p, coords): the element of coords nearest to p
closest_point2surf(p, coords) == coords[closest_index(p, coords)]

\* the indices of a set in increasing order, as np.where returns them
SortedSeq(S) ==
    Seq1([k \in 1..Cardinality(S) |-> CHOOSE a \in S : Cardinality({b \in S : b < a}) = k - 1])

\* mg.get_normals(nodes, ...): the average of the nodes' normal estimates
get_normals(ind, mesh) ==
    LET k == Len(ind)
        s == Seq1([c \in 1..3 |-> RSum(Seq1([j \in 1..k |-> mesh.vnormals[ind[j]][c]]))])
    IN  VDivS(s, <<k, 1>>)

----------------------------------------------------------------------------
(* domains.py: QuadraticDomain *)

\* np.where(norm(mesh.coords - p, axis=1) < radius)
neighbours_within(mesh, p, radius) ==
    SortedSeq({i \in 1..Len(mesh.coords) : NormLess(VSub(mesh.coords[i], p), radius)})

\* local_frames with the inverse multiplied out in the order of the forward
\* transform, `i_affine = iR @ iT`: rotation after translation, not before
local_frames_misordered(n, p) ==
    LET z == <<Zero, Zero, One>>
        iR(R) == SetBlock3(R, Transpose(Block3(R)))
        iT(T) == SetCol4(T, VNeg(Col4(T)))
        frames(R, T) == [affine |-> MatMul(R, T), i_affine |-> MatMul(iR(R), iT(T))]
    IN  frames(SetBlock3(Eye(4), rotate_vec2vec(n, z)), SetCol4(Eye(4), VNeg(p)))

\* The transformation matrices of _construct_local_quadric (its lines from
\* `z = np.array([0, 0, 1])` to `i_affine = iT @ iR`), for the unit normal n
\* and the centre p.  `affine` is multiplied out BEFORE R and T are overwritten
\* in place: iR and iT are other names of the arrays R and T, and the slice
\* assignments iR[:3,:3] = iR[:3,:3].T and iT[:3,3] = -T[:3,3] change R and T
\* themselves.
local_frames(n, p) ==
    LET z == <<Zero, Zero, One>>
        iR(R) == SetBlock3(R, Transpose(Block3(R)))
        iT(T) == SetCol4(T, VNeg(Col4(T)))
        frames(R, T) == [affine |-> MatMul(R, T), i_affine |-> MatMul(iT(T), iR(R))]
    IN  frames(SetBlock3(Eye(4), rotate_vec2vec(n, z)), SetCol4(Eye(4), VNeg(p)))

\* _construct_local_quadric(mesh, p) of a domain with radius local_span:
\* (C, affine, i_affine), or the exception quad_fit raises.
construct_local_quadric(local_span, mesh, p) ==
    LET result(f, fit) ==
            [ok |-> fit.ok, exc |-> fit.exc, C |-> fit.C, affine |-> f.affine, i_affine |-> f.i_affine]
        fitted(f, r_neighbours) ==
            result(f, quad_fit(Seq1([k \in 1..Len(r_neighbours) |-> <<r_neighbours[k][1], r_neighbours[k][2]>>]),
                               Seq1([k \in 1..Len(r_neighbours) |-> r_neighbours[k][3]])))
        framed(neighbours, f) == fitted(f, affine(f.affine, neighbours))
        aligned(neighbours, normals) ==
            framed(neighbours, local_frames(VDivS(normals, VNorm(normals)), p))
        around(neighbours_ind) ==
            aligned(Seq1([k \in 1..Len(neighbours_ind) |-> mesh.coords[neighbours_ind[k]]]),
                    get_normals(neighbours_ind, mesh))
    IN  around(neighbours_within(mesh, p, local_span))

\* np.min / np.max of the values of a non-empty sequence
SeqMin(s) == CHOOSE m \in {s[k] : k \in 1..Len(s)} : \A k \in 1..Len(s) : ~RLess(s[k], m)

SeqMax(s) == CHOOSE m \in {s[k] : k \in 1..Len(s)} : \A k \in 1..Len(s) : ~RLess(m, s[k])

\* _initialize_quadratic_surface(mesh, p): (C, iR, bounds) or the exception
initialize_quadratic_surface(span, local_span, mesh, p) ==
    LET minmax(column) == <<SeqMin(column), SeqMax(column)>>
        bounds(r_neighbours) ==
            Seq1([c \in 1..3 |-> minmax(Seq1([k \in 1..Len(r_neighbours) |-> r_neighbours[k][c]]))])
        coords_of(neighbours_ind) ==
            Seq1([k \in 1..Len(neighbours_ind) |-> mesh.coords[neighbours_ind[k]]])
        surface(v, q) ==
            IF ~q.ok THEN [ok |-> FALSE, exc |-> q.exc, C |-> <<>>, iR |-> <<>>, bounds |-> <<>>]
            ELSE [ok |-> TRUE, exc |-> "", C |-> q.C, iR |-> q.i_affine,
                  bounds |-> bounds(affine(q.affine, coords_of(neighbours_within(mesh, v, span))))]
        snapped(v) == surface(v, construct_local_quadric(local_span, mesh, v))
    IN  snapped(closest_point2surf(p, mesh.coords))

\* _get_sample pushing the sample out by the unit normal, the distance forgotten
get_sample_unscaled(d, mesh, x, y) ==
    LET pp == <<quadratic_surf_position(x, y, d.C)>>
        p == affine(d.iR, pp)[1]
        raised(exc) == [ok |-> FALSE, exc |-> exc, sample |-> <<>>, iR |-> <<>>, C |-> <<>>, n |-> <<>>]
        unit(n_r) == VDivS(n_r, VNorm(n_r))
        pushed(v, q, pd) ==
            IF ~pd.ok THEN raised(pd.exc)
            ELSE [ok |-> TRUE, exc |-> "",
                  sample |-> VAdd(v, unit(MatVec(Block3(q.i_affine), pd.n))),
                  iR |-> q.i_affine, C |-> q.C, n |-> pd.n]
        local(v, q) ==
            IF ~q.ok THEN raised(q.exc) ELSE pushed(v, q, compute_principal_dir(Zero, Zero, q.C))
        snapped(v) == local(v, construct_local_quadric(d.local_span, mesh, v))
    IN  snapped(closest_point2surf(p, mesh.coords))

\* _get_sample pushing out the point p of the coarse quadric instead of the mesh
\* point v it was snapped to
get_sample_unsnapped(d, mesh, x, y) ==
    LET pp == <<quadratic_surf_position(x, y, d.C)>>
        raised(exc) == [ok |-> FALSE, exc |-> exc, sample |-> <<>>, iR |-> <<>>, C |-> <<>>, n |-> <<>>]
        unit(n_r) == VDivS(n_r, VNorm(n_r))
        pushed(p, q, pd) ==
            IF ~pd.ok THEN raised(pd.exc)
            ELSE [ok |-> TRUE, exc |-> "",
                  sample |-> VAdd(p, VScale(unit(MatVec(Block3(q.i_affine), pd.n)), d.distance)),
                  iR |-> q.i_affine, C |-> q.C, n |-> pd.n]
        local(p, q) ==
            IF ~q.ok THEN raised(q.exc) ELSE pushed(p, q, compute_principal_dir(Zero, Zero, q.C))
        snapped(p, v) == local(p, construct_local_quadric(d.local_span, mesh, v))
        placed(p) == snapped(p, closest_point2surf(p, mesh.coords))
    IN  placed(affine(d.iR, pp)[1])

\* _get_sample refusing a query outside the domain's bounds
get_sample_bounded(d, mesh, x, y) ==
    LET pp == <<quadratic_surf_position(x, y, d.C)>>
        p == affine(d.iR, pp)[1]
        raised(exc) == [ok |-> FALSE, exc |-> exc, sample |-> <<>>, iR |-> <<>>, C |-> <<>>, n |-> <<>>]
        unit(n_r) == VDivS(n_r, VNorm(n_r))
        inside == /\ ~RLess(x, d.bounds[1][1]) /\ ~RLess(d.bounds[1][2], x)
                  /\ ~RLess(y, d.bounds[2][1]) /\ ~RLess(d.bounds[2][2], y)
        pushed(v, q, pd) ==
            IF ~pd.ok THEN raised(pd.exc)
            ELSE [ok |-> TRUE, exc |-> "",
                  sample |-> VAdd(v, VScale(unit(MatVec(Block3(q.i_affine), pd.n)), d.distance)),
                  iR |-> q.i_affine, C |-> q.C, n |-> pd.n]
        local(v, q) ==
            IF ~q.ok THEN raised(q.exc) ELSE pushed(v, q, compute_principal_dir(Zero, Zero, q.C))
        snapped(v) == local(v, construct_local_quadric(d.local_span, mesh, v))
    IN  IF inside THEN snapped(closest_point2surf(p, mesh.coords)) ELSE raised("ValueError")

\* _get_sample(mesh, x, y) on the domain d: (sample, iR, C, n) or the exception
get_sample(d, mesh, x, y) ==
    LET pp == <<quadratic_surf_position(x, y, d.C)>>
        p == affine(d.iR, pp)[1]
        raised(exc) == [ok |-> FALSE, exc |-> exc, sample |-> <<>>, iR |-> <<>>, C |-> <<>>, n |-> <<>>]
        unit(n_r) == VDivS(n_r, VNorm(n_r))
        pushed(v, q, pd) ==
            IF ~pd.ok THEN raised(pd.exc)
            ELSE [ok |-> TRUE, exc |-> "",
                  sample |-> VAdd(v, VScale(unit(MatVec(Block3(q.i_affine), pd.n)), d.distance)),
                  iR |-> q.i_affine, C |-> q.C, n |-> pd.n]
        local(v, q) ==
            IF ~q.ok THEN raised(q.exc) ELSE pushed(v, q, compute_principal_dir(Zero, Zero, q.C))
        snapped(v) == local(v, construct_local_quadric(d.local_span, mesh, v))
    IN  snapped(closest_point2surf(p, mesh.coords))

\* place_coil never flipping the normal, whatever flip_norm is
place_coil_unflipped(d, mesh, x, y, theta, flip_norm) ==
    LET oriented(s, qr) ==
            IF ~qr.ok THEN [ok |-> FALSE, exc |-> qr.exc, pose |-> <<>>]
            ELSE LET rot == MatVec(Block3(s.iR), qr.pp)
                     n == MatVec(Block3(s.iR), qr.n)
                 IN  [ok |-> TRUE, exc |-> "",
                      pose |-> define_coil_orientation(s.sample, rot, n)]
        sampled(s) ==
            IF ~s.ok THEN [ok |-> FALSE, exc |-> s.exc, pose |-> <<>>]
            ELSE oriented(s, quadratic_surf_rotation(Zero, Zero, theta, s.C))
    IN  sampled(get_sample(d, mesh, x, y))

\* place_coil(mesh, x, y, theta, flip_norm) on the domain d: the pose or the exception
place_coil(d, mesh, x, y, theta, flip_norm) ==
    LET normflip == IF flip_norm THEN RNeg(One) ELSE One
        oriented(s, qr) ==
            IF ~qr.ok THEN [ok |-> FALSE, exc |-> qr.exc, pose |-> <<>>]
            ELSE LET rot == MatVec(Block3(s.iR), qr.pp)
                     n == MatVec(Block3(s.iR), qr.n)
                 IN  [ok |-> TRUE, exc |-> "",
                      pose |-> define_coil_orientation(s.sample, rot, VScale(n, normflip))]
        sampled(s) ==
            IF ~s.ok THEN [ok |-> FALSE, exc |-> s.exc, pose |-> <<>>]
            ELSE oriented(s, quadratic_surf_rotation(Zero, Zero, theta, s.C))
    IN  sampled(get_sample(d, mesh, x, y))

\* grid.get_default_tms_optimizer / bayes_moe.get_default_tms_optimizer:
\* `bounds = f.domain.bounds; bounds[2, :] = np.array([0, 180])` writes row 2 of
\* the domain's own array (bounds is another name of it, not a copy)
ThetaMin == 0
ThetaMax == 180
set_tms_bounds(bounds) ==
    Seq1([c \in 1..3 |-> IF c = 3 THEN <<Q(ThetaMin, 1), Q(ThetaMax, 1)>> ELSE bounds[c]])

----------------------------------------------------------------------------
(* Bounds of the model, and the meshes and calls it is run on *)

\* queries (x, y) range over the integers -MaxQ..MaxQ
MaxQ == 1
\* theta ranges over 0, 90, ..., 90 * MaxTurn
MaxTurn == 2

QueryVals == {<<i, 1>> : i \in -MaxQ..MaxQ}
Thetas == {<<90 * k, 1>> : k \in 0..MaxTurn}

\* the patch meshes extend one ring of nodes beyond the queries
GridR == MaxQ + 1

Z3 == <<Zero, Zero, One>>
FrameNormal == <<Zero, Q(3, 5), Q(4, 5)>>
Anchor == <<Q(1, 1), Q(-2, 1), Q(3, 1)>>

\* the node at local position l of the patch around Anchor whose frame has
\* FrameNormal as its third axis
FrameInverse == Transpose(rotate_vec2vec(FrameNormal, Z3))
PatchNode(l) == VAdd(Anchor, MatVec(FrameInverse, l))

\* the index of the patch node at local position (i, j)
PatchIndex(i, j) == (i + GridR) * (2 * GridR + 1) + (j + GridR) + 1

\* the height of the node at local position (i, j), by the shape of the patch
HFlat(i, j) == Zero
HSkew(i, j) == Q(3 * j, 4)
HTrough(i, j) == RAdd(Q(3 * j, 4), Q(i * i, 2))
PatchHeight(shape, i, j) ==
    IF shape = "flat" THEN HFlat(i, j)
    ELSE IF shape = "skew" THEN HSkew(i, j)
    ELSE HTrough(i, j)

\* a patch of (2 GridR + 1)^2 nodes at the heights of its shape over the frame's
\* plane, every node carrying the normal estimate nrm
PatchMesh(shape, nrm) ==
    LET w == 2 * GridR + 1
    IN  [coords |-> Seq1([k \in 1..(w * w) |->
                        LET i == ((k - 1) \div w) - GridR
                            j == ((k - 1) % w) - GridR
                        IN  PatchNode(<<Q(i, 1), Q(j, 1), PatchHeight(shape, i, j)>>)]),
         vnormals |-> Seq1([k \in 1..(w * w) |-> nrm])]

\* the flat unit square in the plane z = 0, nodes every 1/10
FlatMesh ==
    [coords |-> Seq1([k \in 1..121 |-> <<Q((k - 1) \div 11, 10), Q((k - 1) % 11, 10), Zero>>]),
     vnormals |-> Seq1([k \in 1..121 |-> Z3])]

\* a node one unit below the centre of a flat 3 x 3 sheet of nodes
PitMesh ==
    [coords |-> <<PatchNode(<<Zero, Zero, Zero>>)>> \o
                Seq1([k \in 1..9 |-> PatchNode(<<Q(((k - 1) \div 3) - 1, 1), Q(((k - 1) % 3) - 1, 1), One>>)]),
     vnormals |-> Seq1([k \in 1..10 |-> FrameNormal])]

ScenarioNames == {"flat", "tilt", "skew", "trough", "pit", "sparse", "narrow"}

\* qx, qy: the queries made; centres: the nodes _construct_local_quadric is called at
Scenario ==
    [name \in ScenarioNames |->
    CASE name = "flat" ->
            [mesh |-> FlatMesh, initial_p |-> <<Q(1, 2), Q(1, 2), Zero>>,
             span |-> Q(2, 5), local_span |-> Q(1, 5), distance |-> One,
             qx |-> QueryVals, qy |-> QueryVals, centres |-> {61}]
      [] name = "tilt" ->
            [mesh |-> PatchMesh("flat", FrameNormal), initial_p |-> VAdd(Anchor, <<Q(1, 4), Zero, Zero>>),
             span |-> Q(5, 2), local_span |-> Q(3, 2), distance |-> One,
             qx |-> QueryVals, qy |-> QueryVals,
             centres |-> {PatchIndex(i, j) : i \in -MaxQ..MaxQ, j \in -MaxQ..MaxQ}]
      [] name = "skew" ->
            [mesh |-> PatchMesh("skew", FrameNormal), initial_p |-> VAdd(Anchor, <<Q(1, 4), Zero, Zero>>),
             span |-> Q(5, 2), local_span |-> Two, distance |-> Two,
             qx |-> QueryVals, qy |-> QueryVals,
             centres |-> {PatchIndex(i, j) : i \in -MaxQ..MaxQ, j \in -MaxQ..MaxQ}]
      [] name = "trough" ->
            [mesh |-> PatchMesh("trough", FrameNormal), initial_p |-> Anchor,
             span |-> Q(5, 2), local_span |-> Two, distance |-> One,
             qx |-> {Zero}, qy |-> QueryVals,
             centres |-> {PatchIndex(0, j) : j \in -MaxQ..MaxQ}]
      [] name = "pit" ->
            [mesh |-> PitMesh, initial_p |-> Anchor,
             span |-> Q(5, 2), local_span |-> Two, distance |-> One,
             qx |-> {Zero}, qy |-> {Zero}, centres |-> {1, 6}]
      [] name = "narrow" ->
            [mesh |-> PatchMesh("skew", FrameNormal), initial_p |-> Anchor,
             span |-> Q(1, 2), local_span |-> Two, distance |-> One,
             qx |-> QueryVals, qy |-> {Zero}, centres |-> {PatchIndex(0, 0)}]
      [] name = "sparse" ->
            [mesh |-> PatchMesh("flat", FrameNormal), initial_p |-> Anchor,
             span |-> Q(5, 2), local_span |-> Q(1, 2), distance |-> One,
             qx |-> QueryVals, qy |-> QueryVals,
             centres |-> {PatchIndex(i, j) : i \in -GridR..GridR, j \in -GridR..GridR}]]

----------------------------------------------------------------------------
(* optimization/base.py: IterableOptimizer, the base of both optimizers.   *)
(* An optimizer object is a record; `calls` is the record of the points    *)
(* its objective function has been called with, batch after batch.         *)

\* no optimizer has been constructed
NoOptimizer == [class |-> "none"]

\* IterableOptimizer.__init__(objective_func, maximize): the objective is
\* minimized, so a maximized one is evaluated with its sign changed
IterableOptimizer_init(maximize) ==
    [iteration |-> 0, maximize |-> maximize, sign |-> IF maximize THEN RNeg(One) ELSE One,
     calls |-> <<>>]

\* IterableOptimizer.evaluate_objective(points), values being what
\* objective_func returns for the points
evaluate_objective(o, values) == VScale(values, o.sign)

\* IterableOptimizer._increment()
increment(o) == [o EXCEPT !.iteration = @ + 1]

----------------------------------------------------------------------------
(* optimization/grid.py: GridOptimizer *)

\* np.linspace(a, b, d)
linspace(a, b, d) ==
    IF d = 1 THEN <<a>>
    ELSE Seq1([i \in 1..d |-> RAdd(a, RDiv(RMul(Q(i - 1, 1), RSub(b, a)), Q(d - 1, 1)))])

\* sklearn's cartesian(arrays): every combination, the last array varying fastest
RECURSIVE cartesian(_)
cartesian(arrays) ==
    IF Len(arrays) = 0 THEN <<<<>>>>
    ELSE LET rest == cartesian(Tail(arrays))
             first == Head(arrays)
         IN  Seq1([k \in 1..(Len(first) * Len(rest)) |->
                     <<first[((k - 1) \div Len(rest)) + 1]>> \o rest[((k - 1) % Len(rest)) + 1]])

\* np.arange taking the stop value in: a division at the end of the grid
arange_inclusive(start, stop, step) ==
    Seq1([i \in 1..(IF stop >= start THEN ((stop - start) \div step) + 1 ELSE 0) |->
             start + (i - 1) * step])

\* np.arange(start, stop, step) for step > 0
arange(start, stop, step) ==
    Seq1([i \in 1..(IF stop > start THEN ((stop - start - 1) \div step) + 1 ELSE 0) |->
             start + (i - 1) * step])

\* np.split(a, divisions): a[:d1], a[d1:d2], ..., a[dk:]
split(a, divisions) ==
    LET from(i) == IF i = 1 THEN 0 ELSE divisions[i - 1]
        upto(i) == IF i = Len(divisions) + 1 THEN Len(a) ELSE divisions[i]
    IN  Seq1([i \in 1..(Len(divisions) + 1) |-> SubSeq(a, from(i) + 1, upto(i))])

\* GridOptimizer.__init__(objective_func, batchsize, sampling_density, bounds, maximize)
GridOptimizer_init(batchsize, sampling_density, bounds, maximize) ==
    LET dim_samples ==
            Seq1([p \in 1..Len(sampling_density) |->
                     linspace(bounds[p][1], bounds[p][2], sampling_density[p])])
        built(base, grid) ==
            [class |-> "GridOptimizer", iteration |-> base.iteration,
             maximize |-> base.maximize, sign |-> base.sign, calls |-> base.calls,
             grid |-> grid,
             batches |-> split(grid, arange(batchsize, Len(grid), batchsize)),
             batchsize |-> batchsize,
             history |-> Seq1([i \in 1..Len(grid) |-> Zero])]
    IN  built(IterableOptimizer_init(maximize), cartesian(dim_samples))

\* GridOptimizer.completed
completed(o) == o.iteration >= Len(o.batches)

\* np.argmin(a): the first index of the least element
argmin(a) ==
    CHOOSE i \in 1..Len(a) :
        \A j \in 1..Len(a) : IF j < i THEN RLess(a[i], a[j]) ELSE ~RLess(a[j], a[i])

\* GridOptimizer.current_best: None before the first iteration
grid_current_best(o) ==
    IF o.iteration = 0 THEN [none |-> TRUE, best_coord |-> <<>>, best_value |-> Zero]
    ELSE [none |-> FALSE, best_coord |-> o.grid[argmin(o.history)],
          best_value |-> o.history[argmin(o.history)]]

\* step() counting the call before it finds the grid completed
grid_step_counting(o, values) ==
    IF completed(o)
    THEN [opt |-> increment(o), ok |-> FALSE, exc |-> "StopIteration",
          sampling_points |-> <<>>, res |-> <<>>]
    ELSE LET sampling_points == o.batches[o.iteration + 1]
             res_ == evaluate_objective(o, values)
             block_start == o.iteration * o.batchsize
             block_end == block_start + Len(res_)
             evaluated == [o EXCEPT !.calls = Append(@, sampling_points),
                                    !.history = Seq1([i \in 1..Len(@) |->
                                        IF block_start < i /\ i <= block_end
                                        THEN res_[i - block_start] ELSE @[i]])]
         IN  [opt |-> increment(evaluated), ok |-> TRUE, exc |-> "",
              sampling_points |-> sampling_points, res |-> res_]

\* GridOptimizer.step(), values being what the objective returns for the batch:
\* the optimizer after the call and what the call returns or raises
grid_step(o, values) ==
    IF completed(o)
    THEN [opt |-> o, ok |-> FALSE, exc |-> "StopIteration", sampling_points |-> <<>>, res |-> <<>>]
    ELSE LET sampling_points == o.batches[o.iteration + 1]
             res_ == evaluate_objective(o, values)
             block_start == o.iteration * o.batchsize
             block_end == block_start + Len(res_)
             evaluated == [o EXCEPT !.calls = Append(@, sampling_points),
                                    !.history = Seq1([i \in 1..Len(@) |->
                                        IF block_start < i /\ i <= block_end
                                        THEN res_[i - block_start] ELSE @[i]])]
         IN  [opt |-> increment(evaluated), ok |-> TRUE, exc |-> "",
              sampling_points |-> sampling_points, res |-> res_]

----------------------------------------------------------------------------

(* optimization/bayes_moe.py: BayesianMOEOptimizer.  The Gaussian process  *)
(* of the MOE library is kept as the data it has been given: the points    *)
(* sampled and their values (its HistoricalData).  An optional integer is  *)
(* None or a one-element tuple holding the integer.                        *)

None == <<>>
Some(n) == <<n>>

\* the defaults: epsilon of the constructor, minimum_samples of
\* get_default_tms_optimizer
DefaultEpsilon == Q(1, 1000)
DefaultMinimumSamples == 10

\* the model before initialize_model(): self.gp_loglikelihood = None
NoModel == [initialized |-> FALSE, points_sampled |-> <<>>, points_sampled_value |-> <<>>]

\* `max_iterations < min_iterations`: Python 3 orders no None, neither with an
\* integer nor with another None
iterations_check(max_iterations, min_iterations) ==
    IF max_iterations = None \/ min_iterations = None THEN "TypeError"
    ELSE IF max_iterations[1] < min_iterations[1] THEN "ValueError"
    ELSE ""

\* BayesianMOEOptimizer.__init__: the optimizer, or the exception raised.
\* prior is "None", "BasePrior" (an instance of it) or any other value
BayesianMOEOptimizer_init(samples_per_iteration, bounds, minimum_samples, prior, maximize, max_iterations, min_iterations, epsilon) ==
    LET failed(exc) == [ok |-> FALSE, exc |-> exc, opt |-> NoOptimizer]
        built(base) ==
            [class |-> "BayesianMOEOptimizer", iteration |-> base.iteration,
             maximize |-> base.maximize, sign |-> base.sign, calls |-> base.calls,
             epsilon |-> epsilon, dims |-> Len(bounds),
             best_point_history |-> <<>>,
             convergence_buffer |-> <<>>, maxlen |-> minimum_samples,
             max_iter |-> max_iterations, min_iter |-> min_iterations,
             prior |-> IF prior = "None" THEN "DefaultPrior" ELSE prior,
             gp_loglikelihood |-> NoModel,
             num_samples |-> samples_per_iteration]
    IN  IF iterations_check(max_iterations, min_iterations) # ""
        THEN failed(iterations_check(max_iterations, min_iterations))
        ELSE IF prior \notin {"None", "BasePrior"} THEN failed("ValueError")
        ELSE [ok |-> TRUE, exc |-> "", opt |-> built(IterableOptimizer_init(maximize))]

\* BayesianMOEOptimizer.current_best: None before the model is initialized
bayes_current_best(o) ==
    IF ~o.gp_loglikelihood.initialized
    THEN [none |-> TRUE, best_coord |-> <<>>, best_value |-> Zero]
    ELSE [none |-> FALSE,
          best_coord |-> o.gp_loglikelihood.points_sampled[argmin(o.gp_loglikelihood.points_sampled_value)],
          best_value |-> SeqMin(o.gp_loglikelihood.points_sampled_value)]

\* BayesianMOEOptimizer._buffer_filled
buffer_filled(o) == Len(o.convergence_buffer) = o.maxlen

\* the array _compute_convergence_criterion() takes the norm of: the buffered
\* best values' deviations from the current best
deviation(o) ==
    LET from(best) == Seq1([i \in 1..Len(o.convergence_buffer) |->
                               RSub(o.convergence_buffer[i], best)])
    IN  from(bayes_current_best(o).best_value)

\* _compute_convergence_criterion() < epsilon
criterion_below_epsilon(o) == NormLess(deviation(o), o.epsilon)

\* converged, taking the criterion of a buffer that is not yet filled
converged_unbuffered(o) ==
    IF o.max_iter # None /\ Some(o.iteration) = o.max_iter THEN TRUE
    ELSE IF o.min_iter # None /\ o.iteration < o.min_iter[1] THEN FALSE
    ELSE IF ~o.gp_loglikelihood.initialized THEN FALSE
    ELSE criterion_below_epsilon(o)

\* BayesianMOEOptimizer.converged
converged(o) ==
    IF o.max_iter # None /\ Some(o.iteration) = o.max_iter THEN TRUE
    ELSE IF ~buffer_filled(o) THEN FALSE
    ELSE IF o.min_iter # None /\ o.iteration < o.min_iter[1] THEN FALSE
    ELSE IF ~o.gp_loglikelihood.initialized THEN FALSE
    ELSE criterion_below_epsilon(o)

\* append of a list: nothing makes room
deque_append_unbounded(buffer, maxlen, x) == Append(buffer, x)

\* collections.deque.append with maxlen: the oldest element makes room
deque_append(buffer, maxlen, x) ==
    IF maxlen = 0 THEN <<>>
    ELSE IF Len(buffer) = maxlen THEN Append(Tail(buffer), x)
    ELSE Append(buffer, x)

\* BayesianMOEOptimizer.initialize_model(), points being what the search
\* domain draws and values what the objective returns for them
initialize_model(o, points, values) ==
    LET res_ == evaluate_objective(o, values)
    IN  [opt |-> [o EXCEPT !.iteration = 0,
                           !.calls = Append(@, points),
                           !.gp_loglikelihood =
                               [initialized |-> TRUE, points_sampled |-> points,
                                points_sampled_value |-> res_]],
         init_pts |-> points, res |-> res_]

\* propose_sampling_points(), evaluate_objective() and _update_model() of one
\* step, points being what the expected-improvement optimization proposes
update_model(o, points, values) ==
    LET res_ == evaluate_objective(o, values)
    IN  [opt |-> [o EXCEPT !.calls = Append(@, points),
                           !.gp_loglikelihood.points_sampled = @ \o points,
                           !.gp_loglikelihood.points_sampled_value = @ \o res_],
         init_pts |-> points, res |-> res_]

\* BayesianMOEOptimizer._update_history()
update_history(o) ==
    [o EXCEPT !.best_point_history =
                  Append(@, <<bayes_current_best(o).best_coord, bayes_current_best(o).best_value>>)]

\* BayesianMOEOptimizer.step()
bayes_step(o, points, values) ==
    LET buffered(t) ==
            [t EXCEPT !.convergence_buffer =
                          deque_append(@, t.maxlen, bayes_current_best(t).best_value)]
        finished(m) ==
            [opt |-> increment(buffered(update_history(m.opt))),
             sampling_points |-> m.init_pts, res |-> m.res,
             qEI |-> IF o.iteration = 0 THEN "None" ELSE "qEI"]
    IN  IF o.iteration = 0
        THEN finished(initialize_model(o, points, values))
        ELSE finished(update_model(o, points, values))

----------------------------------------------------------------------------
(* objective.py: FieldFunc.evaluate and the multiprocessing pool it runs    *)
(* its jobs on.  The coil pose of an input, the right-hand side assembled   *)
(* for a pose and the solution of a right-hand side are kept as records     *)
(* naming what they were computed from; the FEM solver and the field        *)
(* calculation are collaborators (SimNIBS), and the score of a solution is  *)
(* a number fixed by the input it belongs to.                               *)

\* FieldFunc._transform_input(x, y, theta)
transform_input(input) == [matsimnibs_of |-> input]

\* FieldFunc._prepare_tms_matrix(m): (b, dof_map)
prepare_tms_matrix(m) == [b |-> [rhs_of |-> m], dof_map |-> [dof_of |-> m]]

\* self.solver.solve(B).squeeze(): one solution column per column of B, and
\* squeeze() drops the column axis when there is a single column
solve_squeeze(B) ==
    [ndim |-> IF Len(B) = 1 THEN 1 ELSE 2,
     columns |-> Seq1([i \in 1..Len(B) |-> [solution_of |-> B[i]]])]

\* FieldFunc._compute_score(v, dof): the score of the input the solution
\* belongs to
compute_score(v, dof) ==
    LET score(input) == RAdd(RAdd(input[1], RMul(Two, input[2])), input[3])
    IN  score(v.solution_of.rhs_of.matsimnibs_of)

\* a float, and the ApplyResult that pool.apply_async returns for a job
Float(value) == [type |-> "float", value |-> value]
ApplyResult(job, value) == [type |-> "ApplyResult", job |-> job, value |-> value]

\* `scores` as _run_simulation returns it once every job has finished:
\* [s.get() for s in scores] is evaluated and dropped
run_simulation_scores(X, dofs) ==
    Seq1([i \in 1..Len(X.columns) |-> ApplyResult(i, compute_score(X.columns[i], dofs[i]))])

----------------------------------------------------------------------------

(* The state machine *)

VARIABLES
    scen,   \* which mesh and constructor arguments the run is about
    mesh,   \* the mesh snapshot handed to every call
    dom,    \* the QuadraticDomain object
    res,    \* the call that has just returned and what it returned or raised
    made,   \* whether the caller has taken the result of a sampling query
    opt,    \* the optimizer object
    sim     \* the FieldFunc.evaluate call in progress and its worker pool

vars == <<scen, mesh, dom, res, made, opt, sim>>

NoDomain == [state |-> "uninitialized"]
NoRes == [op |-> "none"]
NoSim == [phase |-> "idle"]

Init ==
    /\ scen \in ScenarioNames
    /\ mesh = Scenario[scen].mesh
    /\ dom = NoDomain
    /\ res = NoRes
    /\ made = FALSE
    /\ sim = NoSim
    /\ opt = NoOptimizer

\* QuadraticDomain(mesh, initial_p, span, local_span, distance)
Construct ==
    /\ dom.state = "uninitialized"
    /\ LET constructed(s, r) ==
               /\ dom' = IF r.ok
                         THEN [state |-> "ready", span |-> s.span, local_span |-> s.local_span,
                               distance |-> s.distance, C |-> r.C, iR |-> r.iR, bounds |-> r.bounds]
                         ELSE [state |-> "failed"]
               /\ res' = [op |-> "__init__", args |-> <<s.initial_p>>,
                          ret |-> [ok |-> r.ok, exc |-> r.exc]]
           called(s) ==
               constructed(s, initialize_quadratic_surface(s.span, s.local_span, mesh, s.initial_p))
       IN  called(Scenario[scen])
    /\ UNCHANGED <<scen, mesh, made, opt, sim>>

\* domain._construct_local_quadric(mesh, mesh.coords[i])
ConstructLocalQuadric(i) ==
    /\ dom.state = "ready"
    /\ res = NoRes
    /\ res' = [op |-> "_construct_local_quadric", args |-> <<i>>,
               ret |-> construct_local_quadric(dom.local_span, mesh, mesh.coords[i])]
    /\ UNCHANGED <<scen, mesh, dom, made, opt, sim>>

\* _get_sample keeping the local fit and frame of the query on the domain
GetSampleStoring(x, y) ==
    /\ dom.state = "ready"
    /\ res = NoRes
    /\ LET stored(s) ==
               /\ res' = [op |-> "_get_sample", args |-> <<x, y>>, ret |-> s]
               /\ dom' = IF s.ok THEN [dom EXCEPT !.C = s.C, !.iR = s.iR] ELSE dom
       IN  stored(get_sample(dom, mesh, x, y))
    /\ UNCHANGED <<scen, mesh, made, opt, sim>>

\* domain._get_sample(mesh, x, y)
GetSample(x, y) ==
    /\ dom.state = "ready"
    /\ res = NoRes
    /\ res' = [op |-> "_get_sample", args |-> <<x, y>>, ret |-> get_sample(dom, mesh, x, y)]
    /\ UNCHANGED <<scen, mesh, dom, made, opt, sim>>

\* domain.place_coil(mesh, x, y, theta, flip_norm)
PlaceCoil(x, y, theta, flip_norm) ==
    /\ dom.state = "ready"
    /\ res = NoRes
    /\ res' = [op |-> "place_coil", args |-> <<x, y, theta, flip_norm>>,
               ret |-> place_coil(dom, mesh, x, y, theta, flip_norm)]
    /\ UNCHANGED <<scen, mesh, dom, made, opt, sim>>

\* the value flip_norm takes when place_coil is called without it
FlipNormDefault == TRUE

\* domain.place_coil(mesh, x, y, theta), flip_norm left out
PlaceCoilDefault(x, y, theta) ==
    /\ dom.state = "ready"
    /\ res = NoRes
    /\ res' = [op |-> "place_coil/4", args |-> <<x, y, theta>>,
               ret |-> place_coil(dom, mesh, x, y, theta, FlipNormDefault)]
    /\ UNCHANGED <<scen, mesh, dom, made, opt, sim>>

\* grid.get_default_tms_optimizer(f, locdim, rotdim), f.domain being dom: the
\* optimizer is built on the array it has just written to
GridGetDefaultTmsOptimizer ==
    /\ dom.state = "ready"
    /\ res = NoRes
    /\ dom' = [dom EXCEPT !.bounds = set_tms_bounds(dom.bounds)]
    /\ res' = [op |-> "grid.get_default_tms_optimizer", args |-> <<>>,
               ret |-> [ok |-> TRUE, bounds |-> set_tms_bounds(dom.bounds)]]
    /\ UNCHANGED <<scen, mesh, made, opt, sim>>

\* bayes_moe.get_default_tms_optimizer(f, num_samples), f.domain being dom and
\* minimum_samples, max_iterations and min_iterations left at their defaults:
\* the bounds are written before the constructor is called
BayesGetDefaultTmsOptimizer ==
    /\ dom.state = "ready"
    /\ res = NoRes
    /\ dom' = [dom EXCEPT !.bounds = set_tms_bounds(dom.bounds)]
    /\ LET returned(c) ==
               res' = [op |-> "bayes_moe.get_default_tms_optimizer", args |-> <<>>,
                       ret |-> [ok |-> c.ok, exc |-> c.exc,
                                bounds |-> set_tms_bounds(dom.bounds)]]
       IN  returned(BayesianMOEOptimizer_init(1, set_tms_bounds(dom.bounds),
                                              DefaultMinimumSamples, "BasePrior", TRUE,
                                              None, None, DefaultEpsilon))
    /\ UNCHANGED <<scen, mesh, made, opt, sim>>

\* the sampling queries of the domain
QueryOps == {"_get_sample", "place_coil", "place_coil/4"}

\* the caller takes the result of the call before it makes the next one
Return ==
    /\ res # NoRes
    /\ res' = NoRes
    /\ made' = (made \/ res.op \in QueryOps)
    /\ UNCHANGED <<scen, mesh, dom, opt, sim>>

Next ==
    \/ Construct
    \/ res = NoRes /\ \E i \in Scenario[scen].centres : ConstructLocalQuadric(i)
    \/ res = NoRes /\ \E x \in Scenario[scen].qx, y \in Scenario[scen].qy : GetSample(x, y)
    \/ res = NoRes /\ \E x \in Scenario[scen].qx, y \in Scenario[scen].qy, theta \in Thetas,
                          flip_norm \in BOOLEAN :
                          PlaceCoil(x, y, theta, flip_norm)
    \/ res = NoRes /\ \E x \in Scenario[scen].qx, y \in Scenario[scen].qy, theta \in Thetas :
                          PlaceCoilDefault(x, y, theta)
    \/ GridGetDefaultTmsOptimizer
    \/ BayesGetDefaultTmsOptimizer
    \/ Return

Spec == Init /\ [][Next]_vars

----------------------------------------------------------------------------
(* The geometry functions called on their own, on exact inputs *)

Signs == {-1, 1}

\* unit vectors with rational components: the axes and the 3-4-5 directions
UnitVecs2 ==
    {<<Q(a, 1), Zero>> : a \in Signs} \cup {<<Zero, Q(a, 1)>> : a \in Signs}
    \cup {<<Q(3 * a, 5), Q(4 * b, 5)>> : a \in Signs, b \in Signs}
    \cup {<<Q(4 * a, 5), Q(3 * b, 5)>> : a \in Signs, b \in Signs}

UnitVecs3 ==
    {<<w[1], w[2], Zero>> : w \in UnitVecs2} \cup {<<w[1], Zero, w[2]>> : w \in UnitVecs2}
    \cup {<<Zero, w[1], w[2]>> : w \in UnitVecs2}

IsSquare(n) == \E r \in 0..n : r * r = n

\* the pairs whose sine, |v1 x v2|, is rational (every one when v1 = v2 or v1 = -v2)
RotationPairs ==
    {w \in UnitVecs3 \X UnitVecs3 :
        LET sq(c) == Dot(c, c) IN
        LET s == sq(Cross(w[1], w[2])) IN IsSquare(s[1]) /\ IsSquare(s[2])}

\* the pairs of orthogonal unit vectors, of two components (as quadratic_surf_rotation
\* passes them) and of three (as the function's docstring describes them)
OrthogonalPairs ==
    {w \in UnitVecs2 \X UnitVecs2 : Dot(w[1], w[2]) = Zero}
    \cup {w \in UnitVecs3 \X UnitVecs3 : Dot(w[1], w[2]) = Zero}

\* periods l > 0, and interpolation values t = k * l
Periods == {DefaultPeriod, <<45, 1>>, <<1, 2>>}

NoMesh == [coords |-> <<>>, vnormals |-> <<>>]

InitFn ==
    /\ scen = "functions"
    /\ mesh = NoMesh
    /\ dom = NoDomain
    /\ res = NoRes
    /\ made = FALSE
    /\ sim = NoSim
    /\ opt = NoOptimizer

\* geometry.rotate_vec2vec(v1, v2)
RotateVec2Vec(v1, v2) ==
    /\ res = NoRes
    /\ res' = [op |-> "rotate_vec2vec", args |-> <<v1, v2>>, ret |-> rotate_vec2vec(v1, v2)]
    /\ UNCHANGED <<scen, mesh, dom, made, opt, sim>>

\* geometry.interpolate_angle(u, v, t, l)
InterpolateAngle(u, v, t, l) ==
    /\ res = NoRes
    /\ res' = [op |-> "interpolate_angle", args |-> <<u, v, t, l>>,
               ret |-> interpolate_angle(u, v, t, l)]
    /\ UNCHANGED <<scen, mesh, dom, made, opt, sim>>

\* the components of the vectors skew is applied to range over -MaxCoord..MaxCoord
MaxCoord == 1

Vecs3 == {<<Q(a, 1), Q(b, 1), Q(c, 1)>> : a \in -MaxCoord..MaxCoord, b \in -MaxCoord..MaxCoord,
                                         c \in -MaxCoord..MaxCoord}

\* np.dot(skew(v), x), v passed as an np.ndarray or as a list
Skew(v, x, is_ndarray) ==
    /\ res = NoRes
    /\ LET applied(S) == [S |-> S, Sx |-> MatVec(S, x)]
       IN  res' = [op |-> "skew", args |-> <<v, x, is_ndarray>>,
                   ret |-> applied(IF is_ndarray THEN skew(v) ELSE skew_sequence(v))]
    /\ UNCHANGED <<scen, mesh, dom, made, opt, sim>>

\* the first partial derivatives of the quadric C at (x, y)
df_dx(x, y, C) == RAdd(RAdd(RMul(RMul(Two, C[5]), x), C[2]), RMul(C[4], y))
df_dy(x, y, C) == RAdd(RAdd(RMul(RMul(Two, C[6]), y), C[3]), RMul(C[4], x))

\* quadrics without a mixed term (their second fundamental form is diagonal),
\* of slopes b, c and curvatures e, f
Slopes == {Zero, Q(3, 4), Q(-3, 4), Q(4, 3), Q(-4, 3), Q(9, 20), Q(3, 5), Q(-5, 4), Q(-2, 1)}
Curvatures == {Zero, One, Q(-1, 1)}
Quadrics == {<<Zero, b, c, Zero, e, f>> : b \in Slopes, c \in Slopes, e \in Curvatures, f \in Curvatures}

\* the (x, y, C) at which the length of the normal and the sine of its angle
\* to the z axis are rational, with numerators and denominators up to MaxRoot^2
MaxRoot == 200

RationalNormals ==
    {w \in QueryVals \X QueryVals \X Quadrics :
        LET root(k) == \E r \in 0..(IF k < MaxRoot THEN k ELSE MaxRoot) : r * r = k
            square(a) == root(a[1]) /\ root(a[2])
            slope2(fx, fy) == RAdd(RMul(fx, fx), RMul(fy, fy))
            rational(s) == square(s) /\ square(RAdd(One, s))
        IN  rational(slope2(df_dx(w[1], w[2], w[3]), df_dy(w[1], w[2], w[3])))}

\* geometry.quadratic_surf_rotation(x, y, t, C)
QuadraticSurfRotation(x, y, t, C) ==
    /\ res = NoRes
    /\ res' = [op |-> "quadratic_surf_rotation", args |-> <<x, y, t, C>>,
               ret |-> quadratic_surf_rotation(x, y, t, C)]
    /\ UNCHANGED <<scen, mesh, dom, made, opt, sim>>

NextFn ==
    \/ res = NoRes /\ \E w \in RotationPairs : RotateVec2Vec(w[1], w[2])
    \/ res = NoRes /\ \E w \in OrthogonalPairs, l \in Periods, k \in 0..MaxTurn :
                          InterpolateAngle(w[1], w[2], RMul(<<k, 1>>, l), l)
    \/ res = NoRes /\ \E v \in Vecs3, x \in Vecs3, is_ndarray \in BOOLEAN :
                          Skew(v, x, is_ndarray)
    \/ res = NoRes /\ \E w \in RationalNormals, t \in Thetas :
                          QuadraticSurfRotation(w[1], w[2], t, w[3])
    \/ Return

SpecFn == InitFn /\ [][NextFn]_vars

----------------------------------------------------------------------------

(* The grid optimizer run on its own, on an objective whose values are     *)
(* chosen as it is called                                                   *)

\* batch sizes 1..MaxBatch; 1..MaxDensity samples of the first dimension and 1 or
\* 2 of the second
MaxBatch == 3
MaxDensity == 3

SearchBounds == <<<<Zero, One>>, <<Q(ThetaMin, 1), Q(ThetaMax, 1)>>>>
Densities == {<<d, e>> : d \in 1..MaxDensity, e \in 1..2}

\* the values the objective function takes
ObjValues == {Q(-1, 1), Q(2, 1)}

InitGrid ==
    /\ scen = "grid"
    /\ mesh = NoMesh
    /\ dom = NoDomain
    /\ res = NoRes
    /\ made = FALSE
    /\ sim = NoSim
    /\ opt = NoOptimizer

\* GridOptimizer(objective_func, batchsize, sampling_density, bounds, maximize)
GridConstruct(batchsize, sampling_density, maximize) ==
    /\ opt = NoOptimizer
    /\ res = NoRes
    /\ opt' = GridOptimizer_init(batchsize, sampling_density, SearchBounds, maximize)
    /\ res' = [op |-> "GridOptimizer", args |-> <<batchsize, sampling_density, maximize>>,
               ret |-> [ok |-> TRUE]]
    /\ UNCHANGED <<scen, mesh, dom, made, sim>>

\* the number of points step() would hand to the objective
NextBatchSize(o) == IF completed(o) THEN 0 ELSE Len(o.batches[o.iteration + 1])

\* optimizer.step()
GridStep ==
    /\ opt.class = "GridOptimizer"
    /\ res = NoRes
    /\ \E values \in [1..NextBatchSize(opt) -> ObjValues] :
           LET stepped(s) ==
                   /\ opt' = s.opt
                   /\ res' = [op |-> "step", args |-> <<>>,
                              ret |-> [ok |-> s.ok, exc |-> s.exc,
                                       sampling_points |-> s.sampling_points, res |-> s.res]]
           IN  stepped(grid_step(opt, values))
    /\ UNCHANGED <<scen, mesh, dom, made, sim>>

\* optimizer.current_best
GridCurrentBest ==
    /\ opt.class = "GridOptimizer"
    /\ res = NoRes
    /\ res' = [op |-> "current_best", args |-> <<>>, ret |-> grid_current_best(opt)]
    /\ UNCHANGED <<scen, mesh, dom, made, opt, sim>>

\* optimizer.completed
GridCompleted ==
    /\ opt.class = "GridOptimizer"
    /\ res = NoRes
    /\ res' = [op |-> "completed", args |-> <<>>, ret |-> [ok |-> TRUE, value |-> completed(opt)]]
    /\ UNCHANGED <<scen, mesh, dom, made, opt, sim>>

\* next() on the generator optimizer.iter(): the loop runs step() and reads
\* current_best while not completed, and ends when completed
GridIter ==
    /\ opt.class = "GridOptimizer"
    /\ res = NoRes
    /\ \E values \in [1..NextBatchSize(opt) -> ObjValues] :
           LET yielded(s, best) ==
                   /\ opt' = s.opt
                   /\ res' = [op |-> "iter", args |-> <<>>,
                              ret |-> [ok |-> TRUE, exc |-> "",
                                       out |-> [best_point |-> best.best_coord,
                                                best_value |-> best.best_value,
                                                iteration |-> s.opt.iteration,
                                                samples |-> s.sampling_points,
                                                result |-> s.res]]]
               looped(s) == yielded(s, grid_current_best(s.opt))
           IN  IF completed(opt)
               THEN /\ opt' = opt
                    /\ res' = [op |-> "iter", args |-> <<>>,
                               ret |-> [ok |-> FALSE, exc |-> "StopIteration"]]
               ELSE looped(grid_step(opt, values))
    /\ UNCHANGED <<scen, mesh, dom, made, sim>>

NextGrid ==
    \/ \E batchsize \in 1..MaxBatch, sampling_density \in Densities, maximize \in BOOLEAN :
           GridConstruct(batchsize, sampling_density, maximize)
    \/ GridStep
    \/ GridCurrentBest
    \/ GridCompleted
    \/ GridIter
    \/ Return

SpecGrid == InitGrid /\ [][NextGrid]_vars

----------------------------------------------------------------------------------------------------------------------------------------
(* The Bayesian optimizer run on its own, on the points its search domain  *)
(* or its model proposes                                                    *)

\* max_iterations and min_iterations are None or 0..MaxIter, minimum_samples
\* is 0..MaxSamples, and the objective is called at most MaxCalls times
MaxIter == 2
MaxSamples == 2
MaxCalls == 3

OptionalIterations == {None} \cup {Some(n) : n \in 0..MaxIter}
\* the prior left at its default, and a value that is no BasePrior
Priors == {"None", "str"}
Epsilons == {DefaultEpsilon, Q(4, 1)}

\* the points of the search domain that get proposed, and the objective
\* function's values at them
SearchPoints == {<<Zero, Q(ThetaMin, 1)>>, <<One, Q(ThetaMax, 1)>>}
objective_func(point) == IF point[1] = Zero THEN Q(-1, 1) ELSE Q(2, 1)
Evaluated(points) == Seq1([i \in 1..Len(points) |-> objective_func(points[i])])

InitBayes ==
    /\ scen = "bayes"
    /\ mesh = NoMesh
    /\ dom = NoDomain
    /\ res = NoRes
    /\ made = FALSE
    /\ sim = NoSim
    /\ opt = NoOptimizer

\* BayesianMOEOptimizer(objective_func, samples_per_iteration, bounds, ...)
BayesConstruct(minimum_samples, prior, maximize, max_iterations, min_iterations, epsilon) ==
    /\ opt = NoOptimizer
    /\ res = NoRes
    /\ LET constructed(c) ==
               /\ opt' = c.opt
               /\ res' = [op |-> "BayesianMOEOptimizer",
                          args |-> <<minimum_samples, prior, maximize, max_iterations,
                                     min_iterations, epsilon>>,
                          ret |-> [ok |-> c.ok, exc |-> c.exc]]
       IN  constructed(BayesianMOEOptimizer_init(1, SearchBounds, minimum_samples, prior,
                                                 maximize, max_iterations, min_iterations,
                                                 epsilon))
    /\ UNCHANGED <<scen, mesh, dom, made, sim>>

\* optimizer.initialize_model()
BayesInitializeModel ==
    /\ opt.class = "BayesianMOEOptimizer"
    /\ res = NoRes
    /\ Len(opt.calls) < MaxCalls
    /\ \E points \in [1..opt.num_samples -> SearchPoints] :
           LET initialized(m) ==
                   /\ opt' = m.opt
                   /\ res' = [op |-> "initialize_model", args |-> <<>>,
                              ret |-> [ok |-> TRUE, init_pts |-> m.init_pts, res |-> m.res]]
           IN  initialized(initialize_model(opt, Seq1(points), Evaluated(points)))
    /\ UNCHANGED <<scen, mesh, dom, made, sim>>

\* optimizer.step()
BayesStep ==
    /\ opt.class = "BayesianMOEOptimizer"
    /\ res = NoRes
    /\ Len(opt.calls) < MaxCalls
    /\ \E points \in [1..opt.num_samples -> SearchPoints] :
           LET stepped(s) ==
                   /\ opt' = s.opt
                   /\ res' = [op |-> "step", args |-> <<>>,
                              ret |-> [ok |-> TRUE, sampling_points |-> s.sampling_points,
                                       res |-> s.res, qEI |-> s.qEI]]
           IN  stepped(bayes_step(opt, Seq1(points), Evaluated(points)))
    /\ UNCHANGED <<scen, mesh, dom, made, sim>>

\* optimizer.current_best
BayesCurrentBest ==
    /\ opt.class = "BayesianMOEOptimizer"
    /\ res = NoRes
    /\ res' = [op |-> "current_best", args |-> <<>>, ret |-> bayes_current_best(opt)]
    /\ UNCHANGED <<scen, mesh, dom, made, opt, sim>>

\* optimizer.converged
BayesConverged ==
    /\ opt.class = "BayesianMOEOptimizer"
    /\ res = NoRes
    /\ res' = [op |-> "converged", args |-> <<>>, ret |-> [ok |-> TRUE, value |-> converged(opt)]]
    /\ UNCHANGED <<scen, mesh, dom, made, opt, sim>>

\* the generator looping without reading converged
BayesIterUnchecked ==
    /\ opt.class = "BayesianMOEOptimizer"
    /\ res = NoRes
    /\ Len(opt.calls) < MaxCalls
    /\ \E points \in [1..opt.num_samples -> SearchPoints] :
           LET yielded(s, best) ==
                   /\ opt' = s.opt
                   /\ res' = [op |-> "iter", args |-> <<>>,
                              ret |-> [ok |-> TRUE, exc |-> "",
                                       out |-> [best_point |-> best.best_coord,
                                                best_value |-> best.best_value,
                                                iteration |-> s.opt.iteration,
                                                samples |-> s.sampling_points,
                                                result |-> s.res,
                                                qei |-> s.qEI,
                                                criterion_squared |-> IF buffer_filled(s.opt)
                                                                    THEN Some(Dot(deviation(s.opt), deviation(s.opt)))
                                                                    ELSE None,
                                                converged |-> converged(s.opt)]]]
               looped(s) == yielded(s, bayes_current_best(s.opt))
           IN  IF FALSE
               THEN /\ opt' = opt
                    /\ res' = [op |-> "iter", args |-> <<>>,
                               ret |-> [ok |-> FALSE, exc |-> "StopIteration"]]
               ELSE looped(bayes_step(opt, Seq1(points), Evaluated(points)))
    /\ UNCHANGED <<scen, mesh, dom, made, sim>>

\* next() on the generator optimizer.iter(): the loop runs step() and reads
\* current_best and converged while not converged, and ends when converged
BayesIter ==
    /\ opt.class = "BayesianMOEOptimizer"
    /\ res = NoRes
    /\ converged(opt) \/ Len(opt.calls) < MaxCalls
    /\ \E points \in [1..opt.num_samples -> SearchPoints] :
           LET yielded(s, best) ==
                   /\ opt' = s.opt
                   /\ res' = [op |-> "iter", args |-> <<>>,
                              ret |-> [ok |-> TRUE, exc |-> "",
                                       out |-> [best_point |-> best.best_coord,
                                                best_value |-> best.best_value,
                                                iteration |-> s.opt.iteration,
                                                samples |-> s.sampling_points,
                                                result |-> s.res,
                                                qei |-> s.qEI,
                                                criterion_squared |-> IF buffer_filled(s.opt)
                                                                    THEN Some(Dot(deviation(s.opt), deviation(s.opt)))
                                                                    ELSE None,
                                                converged |-> converged(s.opt)]]]
               looped(s) == yielded(s, bayes_current_best(s.opt))
           IN  IF converged(opt)
               THEN /\ opt' = opt
                    /\ res' = [op |-> "iter", args |-> <<>>,
                               ret |-> [ok |-> FALSE, exc |-> "StopIteration"]]
               ELSE looped(bayes_step(opt, Seq1(points), Evaluated(points)))
    /\ UNCHANGED <<scen, mesh, dom, made, sim>>

NextBayes ==
    \/ \E minimum_samples \in 0..MaxSamples, prior \in Priors, maximize \in BOOLEAN,
          max_iterations \in OptionalIterations, min_iterations \in OptionalIterations,
          epsilon \in Epsilons :
           BayesConstruct(minimum_samples, prior, maximize, max_iterations, min_iterations,
                          epsilon)
    \/ BayesInitializeModel
    \/ BayesStep
    \/ BayesCurrentBest
    \/ BayesConverged
    \/ BayesIter
    \/ Return

SpecBayes == InitBayes /\ [][NextBayes]_vars

----------------

(* FieldFunc.evaluate on a worker pool.  The calling thread runs            *)
(* _run_simulation; the pool's workers take the queued jobs in the order    *)
(* they were submitted and finish them in any order.                        *)

MaxInputs == 3
MaxWorkers == 2

\* (x, y, theta) inputs with pairwise different scores
InputTriples == {<<Zero, Zero, Zero>>, <<One, Zero, Q(90, 1)>>, <<Zero, One, Q(180, 1)>>}

InputLists == UNION {[1..n -> InputTriples] : n \in 1..MaxInputs}

\* the jobs 1..n in submission order
Submitted(n) == Seq1([i \in 1..n |-> i])

InitEval ==
    /\ scen = "evaluate"
    /\ mesh = NoMesh
    /\ dom = NoDomain
    /\ res = NoRes
    /\ made = FALSE
    /\ sim = NoSim
    /\ opt = NoOptimizer

\* evaluate(input_list) up to pool.map(self._prepare_tms_matrix, matsimnibs)
\* handing its jobs to a pool of num_workers processes
Evaluate(input_list, num_workers) ==
    /\ res = NoRes
    /\ sim = NoSim
    /\ sim' = [phase |-> "map", input_list |-> Seq1(input_list), num_workers |-> num_workers,
               matsimnibs |-> Seq1([i \in 1..Len(input_list) |-> transform_input(input_list[i])]),
               queue |-> Submitted(Len(input_list)), running |-> {}, done |-> {},
               finished |-> <<>>]
    /\ UNCHANGED <<scen, mesh, dom, res, made, opt>>

\* an idle worker takes the next queued job
WorkerStart ==
    /\ sim.phase \in {"map", "score"}
    /\ sim.queue # <<>>
    /\ Cardinality(sim.running) < sim.num_workers
    /\ sim' = [sim EXCEPT !.queue = Tail(@), !.running = @ \cup {Head(sim.queue)}]
    /\ UNCHANGED <<scen, mesh, dom, res, made, opt>>

\* a worker finishes the job it is running
WorkerFinish(job) ==
    /\ sim.phase \in {"map", "score"}
    /\ job \in sim.running
    /\ sim' = [sim EXCEPT !.running = @ \ {job}, !.done = @ \cup {job},
                          !.finished = Append(@, job)]
    /\ UNCHANGED <<scen, mesh, dom, res, made, opt>>

\* pool.map returns once every job is done, with the results in the order of
\* its argument; B is stacked, solved and squeezed, and one _compute_score
\* job per column of X is submitted with apply_async.  X.shape[1] of a
\* one-dimensional X raises IndexError, and leaving the `with` block
\* terminates the pool.
PoolMapReturns ==
    /\ sim.phase = "map"
    /\ sim.done = 1..Len(sim.input_list)
    /\ LET n == Len(sim.input_list)
           prepared == [i \in 1..n |-> prepare_tms_matrix(sim.matsimnibs[i])]
           B == Seq1([i \in 1..n |-> prepared[i].b])
           dofs == Seq1([i \in 1..n |-> prepared[i].dof_map])
           X == solve_squeeze(B)
       IN  IF X.ndim < 2
           THEN /\ res' = [op |-> "evaluate", args |-> <<sim.input_list>>,
                           ret |-> [ok |-> FALSE, exc |-> "IndexError"],
                           order |-> sim.finished]
                /\ sim' = NoSim
           ELSE /\ sim' = [phase |-> "score", input_list |-> sim.input_list,
                           num_workers |-> sim.num_workers, X |-> X, dofs |-> dofs,
                           queue |-> Submitted(n), running |-> {}, done |-> {},
                           finished |-> <<>>, got |-> 0]
                /\ res' = res
    /\ UNCHANGED <<scen, mesh, dom, made, opt>>

\* [s.get() for s in scores]: the next get() returns once its job is done
ApplyResultGet ==
    /\ sim.phase = "score"
    /\ sim.got < Len(sim.input_list)
    /\ sim.got + 1 \in sim.done
    /\ sim' = [sim EXCEPT !.got = @ + 1]
    /\ UNCHANGED <<scen, mesh, dom, res, made, opt>>

\* return scores, out of _run_simulation and out of evaluate
EvaluateReturns ==
    /\ sim.phase = "score"
    /\ sim.got = Len(sim.input_list)
    /\ res' = [op |-> "evaluate", args |-> <<sim.input_list>>,
               ret |-> [ok |-> TRUE, scores |-> run_simulation_scores(sim.X, sim.dofs)],
               order |-> sim.finished]
    /\ sim' = NoSim
    /\ UNCHANGED <<scen, mesh, dom, made, opt>>

NextEval ==
    \/ sim = NoSim /\ \E input_list \in InputLists, num_workers \in 1..MaxWorkers :
           Evaluate(input_list, num_workers)
    \/ WorkerStart
    \/ sim.phase \in {"map", "score"} /\ \E job \in 1..MaxInputs : WorkerFinish(job)
    \/ PoolMapReturns
    \/ ApplyResultGet
    \/ EvaluateReturns
    \/ Return

SpecEval == InitEval /\ [][NextEval]_vars

----------------------------------------------------------------------------

(* The claims *)

Called(op) == res.op = op
Returned(op) == res.op = op /\ res.ret.ok

\* C1: after construction no operation on the domain or on an optimizer built
\* from it changes an entry of domain.bounds.
\* Both get_default_tms_optimizer functions write [0, 180] into row 2 of the
\* domain's own array.
C1_BoundsImmutable == [][dom.state = "ready" => dom'.bounds = dom.bounds]_vars

\* C2: for every (affine, i_affine) pair _construct_local_quadric returns,
\* i_affine after affine is the identity transform, and it returns every point
\* of the neighbourhood to itself.
C2_InverseOfForward ==
    Returned("_construct_local_quadric") =>
        LET ind == neighbours_within(mesh, mesh.coords[res.args[1]], dom.local_span)
            neighbours == Seq1([k \in 1..Len(ind) |-> mesh.coords[ind[k]]])
        IN  /\ MatMul(res.ret.i_affine, res.ret.affine) = Eye(4)
            /\ affine(res.ret.i_affine, affine(res.ret.affine, neighbours)) = neighbours

\* a pair of frames that rotates and translates, with several points to carry
C2_Witness ==
    /\ Returned("_construct_local_quadric")
    /\ Block3(res.ret.affine) # Eye(3)
    /\ Col4(res.ret.affine) # <<Zero, Zero, Zero>>
    /\ Len(neighbours_within(mesh, mesh.coords[res.args[1]], dom.local_span)) > 1

\* C3: rotate_vec2vec never divides by zero: for parallel unit vectors it returns
\* the identity, for antiparallel unit vectors a half turn about an axis
\* orthogonal to v1 (a symmetric rotation taking v1 to v2), every entry finite.
C3_DegenerateRotation ==
    (Called("rotate_vec2vec") /\ Cross(res.args[1], res.args[2]) = <<Zero, Zero, Zero>>) =>
        /\ MFinite(res.ret)
        /\ res.args[1] = res.args[2] => res.ret = Eye(3)
        /\ res.args[1] = VNeg(res.args[2]) =>
               /\ MatVec(res.ret, res.args[1]) = res.args[2]
               /\ MatMul(res.ret, res.ret) = Eye(3)
               /\ Transpose(res.ret) = res.ret

\* column j of the pose's 3x3 block, and its translation column
PoseAxis(pose, j) == <<pose[1][j], pose[2][j], pose[3][j]>>
PosePosition(pose) == <<pose[1][4], pose[2][4], pose[3][4]>>

\* C4: on the flat mesh in the plane z = 0, anchored at (0.5, 0.5, 0) with span
\* 0.4, local_span 0.2 and distance 1, construction succeeds with the coarse
\* normal (0, 0, 1), and place_coil(0, 0, 0, False) returns a finite pose at
\* (0.5, 0.5, 1) whose z axis is (0, 0, 1).
C4_FlatScenario ==
    scen = "flat" =>
        /\ Called("__init__") => res.ret.ok
        /\ dom.state = "ready" => MatVec(Block3(dom.iR), Z3) = Z3
        /\ (Called("place_coil") /\ res.args = <<Zero, Zero, Zero, FALSE>>) =>
               /\ res.ret.ok
               /\ MFinite(res.ret.pose)
               /\ PosePosition(res.ret.pose) = <<Q(1, 2), Q(1, 2), One>>
               /\ PoseAxis(res.ret.pose, 3) = Z3

\* C5: every finite pose place_coil returns is orthonormal: the three axis
\* columns have unit length and are pairwise orthogonal.
C5_PoseOrthonormal ==
    (Returned("place_coil") /\ MFinite(res.ret.pose)) =>
        \A i \in 1..3, j \in 1..3 :
            Dot(PoseAxis(res.ret.pose, i), PoseAxis(res.ret.pose, j))
                = IF i = j THEN One ELSE Zero

\* a finite pose away from the anchor, in a tilted frame on a sloping quadric,
\* turned and flipped
C5_Witness ==
    /\ Returned("place_coil")
    /\ MFinite(res.ret.pose)
    /\ res.args[2] # Zero
    /\ res.args[3] # Zero
    /\ res.args[4]
    /\ Block3(dom.iR) # Eye(3)
    /\ dom.C[3] # Zero

\* the number of mesh points within local_span of v: the points the fit at v gets
FitPoints(v) == Len(neighbours_within(mesh, v, Scenario[scen].local_span))

\* the mesh point a query (x, y) is snapped to
SnappedQuery(x, y) ==
    closest_point2surf(affine(dom.iR, <<quadratic_surf_position(x, y, dom.C)>>)[1], mesh.coords)

\* C6: a fit on fewer than 6 points is a hard failure of the construction or of
\* the query that made it; no coefficients of a fallback fit are returned.
C6_SparseFitFails ==
    /\ (Called("__init__")
            /\ FitPoints(closest_point2surf(Scenario[scen].initial_p, mesh.coords)) < 6)
        => ~res.ret.ok
    /\ (Called("_construct_local_quadric") /\ FitPoints(mesh.coords[res.args[1]]) < 6)
        => ~res.ret.ok
    /\ (res.op \in {"_get_sample", "place_coil"}
            /\ FitPoints(SnappedQuery(res.args[1], res.args[2])) < 6)
        => ~res.ret.ok

\* the anchor: the mesh point the constructor snapped initial_p to
SnappedAnchor == closest_point2surf(Scenario[scen].initial_p, mesh.coords)

\* the unit normal of a _get_sample result, in mesh coordinates
ReturnedNormal ==
    LET unit(n_r) == VDivS(n_r, VNorm(n_r))
    IN  unit(MatVec(Block3(res.ret.iR), res.ret.n))

\* C7: _get_sample(mesh, 0, 0) after construction returns the anchor pushed out
\* by `distance` along the estimated unit normal: the query (0, 0) snaps back
\* to the anchor.
C7_OriginSample ==
    (Returned("_get_sample") /\ res.args = <<Zero, Zero>>) =>
        res.ret.sample = VAdd(SnappedAnchor, VScale(ReturnedNormal, dom.distance))

\* C7 as amended: it does so when the anchor is the mesh point nearest to the
\* coarse quadric's point at (0, 0), which lies at height C[0] over the anchor.
C7_OriginSampleAtAnchor ==
    (Returned("_get_sample") /\ res.args = <<Zero, Zero>>
        /\ SnappedQuery(Zero, Zero) = SnappedAnchor) =>
            res.ret.sample = VAdd(SnappedAnchor, VScale(ReturnedNormal, dom.distance))

\* the origin query on a domain whose initial point was off the mesh, at a
\* distance other than 1
C7_Witness ==
    /\ Returned("_get_sample")
    /\ res.args = <<Zero, Zero>>
    /\ SnappedQuery(Zero, Zero) = SnappedAnchor
    /\ Scenario[scen].initial_p # SnappedAnchor
    /\ dom.distance # One

\* C8: the position _get_sample returns is v + distance * n, v being the mesh
\* point nearest to the query's point on the coarse quadric and n a unit vector;
\* so it lies at distance `distance` from a mesh vertex.
C8_SampleOffVertex ==
    Returned("_get_sample") =>
        LET v == SnappedQuery(res.args[1], res.args[2])
            offset == VSub(res.ret.sample, v)
        IN  /\ \E i \in 1..Len(mesh.coords) : mesh.coords[i] = v
            /\ offset = VScale(ReturnedNormal, dom.distance)
            /\ Dot(ReturnedNormal, ReturnedNormal) = One
            /\ Dot(offset, offset) = RMul(dom.distance, dom.distance)

\* a query whose point on the coarse quadric is no mesh point, snapped to a
\* mesh point other than the anchor
C8_Witness ==
    /\ Returned("_get_sample")
    /\ SnappedQuery(res.args[1], res.args[2]) # SnappedAnchor
    /\ SnappedQuery(res.args[1], res.args[2])
           # affine(dom.iR, <<quadratic_surf_position(res.args[1], res.args[2], dom.C)>>)[1]

C10_PoseLayout ==
    Returned("place_coil") =>
        LET s == get_sample(dom, mesh, res.args[1], res.args[2])
            qr == quadratic_surf_rotation(Zero, Zero, res.args[3], s.C)
            tangent == MatVec(Block3(s.iR), qr.pp)
            normal == VScale(MatVec(Block3(s.iR), qr.n), IF res.args[4] THEN RNeg(One) ELSE One)
            y == VDivS(tangent, VNorm(tangent))
            z == VDivS(normal, VNorm(normal))
            pose == res.ret.pose
        IN  /\ Len(pose) = 4
            /\ \A i \in 1..4 : Len(pose[i]) = 4
            /\ PoseAxis(pose, 2) = y
            /\ PoseAxis(pose, 3) = z
            /\ PoseAxis(pose, 1) = Cross(y, z)
            /\ PosePosition(pose) = s.sample
            /\ pose[4] = <<Zero, Zero, Zero, One>>

\* a finite pose off the anchor, turned a quarter, the normal not flipped
C10_Witness ==
    /\ Returned("place_coil")
    /\ MFinite(res.ret.pose)
    /\ res.args[1] # Zero
    /\ res.args[3] = DefaultPeriod
    /\ ~res.args[4]

\* C11: for the same (x, y, theta), place_coil with flip_norm=True returns the
\* pose of flip_norm=False with its z axis and its x axis negated and its y axis
\* and position unchanged; without flip_norm the normal is flipped.
C11_FlipNegatesNormal ==
    LET mirrored(flipped, plain) ==
            /\ PoseAxis(flipped, 3) = VNeg(PoseAxis(plain, 3))
            /\ PoseAxis(flipped, 1) = VNeg(PoseAxis(plain, 1))
            /\ PoseAxis(flipped, 2) = PoseAxis(plain, 2)
            /\ PosePosition(flipped) = PosePosition(plain)
            /\ flipped[4] = plain[4]
        paired(other) ==
            /\ other.ok
            /\ IF res.args[4] THEN mirrored(res.ret.pose, other.pose)
                              ELSE mirrored(other.pose, res.ret.pose)
        defaulted(plain) == plain.ok /\ mirrored(res.ret.pose, plain.pose)
    IN  /\ Returned("place_coil") =>
               paired(place_coil(dom, mesh, res.args[1], res.args[2], res.args[3], ~res.args[4]))
        /\ Returned("place_coil/4") =>
               defaulted(place_coil(dom, mesh, res.args[1], res.args[2], res.args[3], FALSE))

\* a finite flipped pose whose x and z axes are not their own negations, and a
\* finite pose of a call without flip_norm
C11_Witness ==
    \/ /\ Returned("place_coil")
       /\ res.args[4]
       /\ MFinite(res.ret.pose)
       /\ PoseAxis(res.ret.pose, 1) # VNeg(PoseAxis(res.ret.pose, 1))
       /\ res.args[1] # Zero
       /\ res.args[3] # Zero
    \/ /\ Returned("place_coil/4")
       /\ MFinite(res.ret.pose)
       /\ res.args[3] # Zero

\* bounds is the 3x2 array of the extents, in the coarse forward frame, of the
\* mesh points strictly nearer than span to the snapped anchor
BoundsAreExtents(bounds) ==
    LET near == {i \in 1..Len(mesh.coords) :
                     RLess(Dot(VSub(mesh.coords[i], SnappedAnchor), VSub(mesh.coords[i], SnappedAnchor)),
                           RMul(dom.span, dom.span))}
        extents(forward) ==
            /\ Len(bounds) = 3
            /\ \A c \in 1..3 :
                   /\ Len(bounds[c]) = 2
                   /\ \E i \in near : affine(forward, <<mesh.coords[i]>>)[1][c] = bounds[c][1]
                   /\ \E i \in near : affine(forward, <<mesh.coords[i]>>)[1][c] = bounds[c][2]
                   /\ \A i \in near :
                          /\ ~RLess(affine(forward, <<mesh.coords[i]>>)[1][c], bounds[c][1])
                          /\ ~RLess(bounds[c][2], affine(forward, <<mesh.coords[i]>>)[1][c])
                   /\ ~RLess(bounds[c][2], bounds[c][1])
    IN  extents(construct_local_quadric(dom.local_span, mesh, SnappedAnchor).affine)

\* C12: domain.bounds is a 3x2 array whose row i holds the minimum and the
\* maximum of coordinate i over exactly the mesh points strictly nearer than
\* span to the snapped anchor, taken through the coarse forward frame; so
\* bounds[i,0] <= bounds[i,1].
C12_BoundsAreExtents == dom.state = "ready" => BoundsAreExtents(dom.bounds)

\* the array the constructor stores is that array of extents
C12_BoundsAtConstruction == Returned("__init__") => BoundsAreExtents(dom.bounds)

\* C13: a sampling query writes neither to the domain nor to the mesh: it
\* leaves both as they were and answers from them, and nothing but the bounds
\* (which no query reads) is ever written once the domain is constructed, so
\* a query's result is that of the same query on the domain as constructed,
\* whatever queries were made before it.
C13_QueriesWriteNothing ==
    [][/\ res'.op \in QueryOps =>
              /\ dom' = dom
              /\ mesh' = mesh
              /\ mesh' = Scenario[scen].mesh
              /\ res'.op = "_get_sample" =>
                     res'.ret = get_sample(dom, mesh, res'.args[1], res'.args[2])
              /\ res'.op = "place_coil" =>
                     res'.ret = place_coil(dom, mesh, res'.args[1], res'.args[2],
                                           res'.args[3], res'.args[4])
              /\ res'.op = "place_coil/4" =>
                     res'.ret = place_coil(dom, mesh, res'.args[1], res'.args[2],
                                           res'.args[3], FlipNormDefault)
       /\ dom.state = "ready" =>
              /\ mesh' = mesh
              /\ dom'.state = "ready"
              /\ [dom' EXCEPT !.bounds = dom.bounds] = dom]_vars

\* a query off the origin answered after other queries
C13_Witness ==
    /\ res.op \in QueryOps
    /\ res.ret.ok
    /\ made
    /\ res.args[1] # Zero
    /\ dom.distance # One

\* (x, y) lies outside the rows of domain.bounds for the two surface coordinates
OutOfBounds(x, y) ==
    \/ RLess(x, dom.bounds[1][1]) \/ RLess(dom.bounds[1][2], x)
    \/ RLess(y, dom.bounds[2][1]) \/ RLess(dom.bounds[2][2], y)

\* C14: _get_sample and place_coil do not reject a query outside domain.bounds:
\* it goes through the same steps as any query (the point of the coarse quadric
\* is snapped to a mesh point and pushed out along that point's normal) and a
\* sample or a pose is returned, not an error.
C14_NoBoundCheck ==
    (res.op \in QueryOps /\ OutOfBounds(res.args[1], res.args[2])) =>
        /\ res.ret.ok
        /\ res.op = "_get_sample" =>
               res.ret.sample = VAdd(SnappedQuery(res.args[1], res.args[2]),
                                     VScale(ReturnedNormal, dom.distance))
        /\ res.op # "_get_sample" =>
               PosePosition(res.ret.pose)
                   = get_sample(dom, mesh, res.args[1], res.args[2]).sample

\* a pose returned for a query beyond the largest x of the bounds
C14_Witness ==
    /\ Returned("place_coil")
    /\ RLess(dom.bounds[1][2], res.args[1])
    /\ MFinite(res.ret.pose)

\* the determinant of a 3x3 matrix
Det3(m) == Dot(m[1], Cross(m[2], m[3]))

\* C15: for unit vectors v1, v2 neither parallel nor antiparallel,
\* rotate_vec2vec(v1, v2) is a proper rotation R (R R' = I, det R = 1) and
\* R v1 = v2.
C15_ProperRotation ==
    (Called("rotate_vec2vec") /\ Cross(res.args[1], res.args[2]) # <<Zero, Zero, Zero>>) =>
        /\ MatMul(res.ret, Transpose(res.ret)) = Eye(3)
        /\ Det3(res.ret) = One
        /\ MatVec(res.ret, res.args[1]) = res.args[2]

\* a rotation between two directions that are neither parallel nor orthogonal
C15_Witness ==
    /\ Called("rotate_vec2vec")
    /\ Cross(res.args[1], res.args[2]) # <<Zero, Zero, Zero>>
    /\ Dot(res.args[1], res.args[2]) # Zero
    /\ MFinite(res.ret)

\* C16: skew(v) x = v x x for all 3-vectors v and x, v an array or a plain
\* sequence; so skew(v) is antisymmetric with a zero diagonal.
C16_SkewIsCross ==
    Called("skew") =>
        /\ res.ret.Sx = Cross(res.args[1], res.args[2])
        /\ \A i \in 1..3, j \in 1..3 : res.ret.S[i][j] = RNeg(res.ret.S[j][i])
        /\ \A i \in 1..3 : res.ret.S[i][i] = Zero

\* a product that is not zero, of a vector passed as a plain sequence
C16_Witness ==
    /\ Called("skew")
    /\ ~res.args[3]
    /\ res.ret.Sx # <<Zero, Zero, Zero>>
    /\ \A i \in 1..3 : res.args[1][i] # Zero

\* the batches handed to the objective so far, one after the other
RECURSIVE Flatten(_)
Flatten(batches) == IF Len(batches) = 0 THEN <<>> ELSE Head(batches) \o Flatten(Tail(batches))

\* ceil(n / b)
CeilDiv(n, b) == (n + b - 1) \div b

\* C17: from a fresh GridOptimizer over N >= 1 points with batch size b >= 1,
\* the step() calls evaluate the grid points in grid order in consecutive
\* batches of b points (the last possibly smaller), each point once, and
\* `completed` is true after exactly ceil(N / b) steps and not before; iter()
\* then stops.
C17_GridEvaluatedOnce ==
    opt.class = "GridOptimizer" =>
        LET N == Len(opt.grid)
            b == opt.batchsize
            done == IF opt.iteration * b < N THEN opt.iteration * b ELSE N
        IN  /\ Len(opt.calls) = opt.iteration
            /\ Flatten(opt.calls) = SubSeq(opt.grid, 1, done)
            /\ \A k \in 1..Len(opt.calls) :
                   Len(opt.calls[k]) = IF k * b <= N THEN b ELSE N - (k - 1) * b
            /\ \A k \in 1..Len(opt.calls) : Len(opt.calls[k]) >= 1
            /\ completed(opt) <=> opt.iteration = CeilDiv(N, b)
            /\ completed(opt) => Flatten(opt.calls) = opt.grid
            /\ res.op = "completed" => (res.ret.value <=> opt.iteration = CeilDiv(N, b))
            /\ res.op = "step" => (res.ret.ok \/ opt.iteration = CeilDiv(N, b))
            /\ res.op = "iter" =>
                   IF res.ret.ok
                   THEN /\ res.ret.out.iteration = opt.iteration
                        /\ res.ret.out.samples = opt.calls[opt.iteration]
                   ELSE opt.iteration = CeilDiv(N, b)

\* a grid that does not divide into whole batches, completed by its last,
\* smaller batch
C17_Witness ==
    /\ opt.class = "GridOptimizer"
    /\ res.op = "step"
    /\ res.ret.ok
    /\ completed(opt)
    /\ opt.iteration > 1
    /\ Len(opt.calls[opt.iteration]) < opt.batchsize
    /\ Flatten(opt.calls) = opt.grid

\* C18: after at least one step, also before completion, current_best returns a
\* grid coordinate that has been evaluated, with the value recorded for it, the
\* least of the values recorded so far; before any step it returns None.
C18_BestIsEvaluated ==
    (opt.class = "GridOptimizer" /\ res.op = "current_best") =>
        LET N == Len(opt.grid)
            done == IF opt.iteration * opt.batchsize < N THEN opt.iteration * opt.batchsize ELSE N
        IN  IF opt.iteration = 0 THEN res.ret.none
            ELSE /\ ~res.ret.none
                 /\ \E i \in 1..done :
                        /\ opt.grid[i] = res.ret.best_coord
                        /\ opt.history[i] = res.ret.best_value
                 /\ \A i \in 1..done : ~RLess(opt.history[i], res.ret.best_value)

\* C19: the BayesianMOEOptimizer constructor raises ValueError when
\* min_iterations exceeds max_iterations and otherwise constructs the
\* optimizer, also when max_iterations or min_iterations is left at None
\* (the prior being None or a BasePrior)
C19_ConstructsUnlessMinExceedsMax ==
    Called("BayesianMOEOptimizer") /\ res.args[2] \in {"None", "BasePrior"} =>
        LET exceeds(max_iterations, min_iterations) ==
                /\ max_iterations # None
                /\ min_iterations # None
                /\ min_iterations[1] > max_iterations[1]
        IN  IF exceeds(res.args[4], res.args[5])
            THEN ~res.ret.ok /\ res.ret.exc = "ValueError"
            ELSE res.ret.ok /\ opt.class = "BayesianMOEOptimizer"

C22_IterStopsAtMax ==
    [][(/\ opt.class = "BayesianMOEOptimizer"
        /\ res'.op = "iter"
        /\ opt.max_iter # None
        /\ Len(opt.calls) = Len(opt.best_point_history)
        /\ opt.iteration <= opt.max_iter[1]) =>
          IF opt.iteration = opt.max_iter[1]
          THEN /\ ~res'.ret.ok
               /\ res'.ret.exc = "StopIteration"
               /\ opt' = opt
          ELSE IF res'.ret.ok
               THEN /\ opt'.iteration = opt.iteration + 1
                    /\ res'.ret.out.iteration = opt'.iteration
                    /\ res'.ret.out.iteration <= opt.max_iter[1]
                    /\ Len(opt'.calls) = Len(opt.calls) + 1
                    /\ Len(opt'.calls) <= opt.max_iter[1]
               ELSE /\ res'.ret.exc = "StopIteration"
                    /\ opt' = opt]_vars

\* iter() ended by max_iterations = 2 after two steps, the criterion not met
C22_Witness ==
    /\ opt.class = "BayesianMOEOptimizer"
    /\ res.op = "iter"
    /\ ~res.ret.ok
    /\ opt.max_iter = Some(2)
    /\ opt.iteration = 2
    /\ Len(opt.calls) = 2
    /\ Len(opt.best_point_history) = 2
    /\ ~criterion_below_epsilon(opt)

\* C23: each step() appends one entry to best_point_history and one to
\* convergence_buffer (a deque of maxlen minimum_samples) and advances
\* iteration by one, the step at iteration 0 initializing the model and
\* returning qEI = None; so after k step() calls on a fresh optimizer
\* len(best_point_history) = iteration = k and
\* len(convergence_buffer) = min(k, minimum_samples).
C23_StepBookkeeping ==
    [][(opt.class = "BayesianMOEOptimizer" /\ res'.op = "step") =>
          LET Min(a, b) == IF a < b THEN a ELSE b
              \* the objective has been called by step() only, k times
              stepped_only(o, k) == Len(o.calls) = k /\ Len(o.best_point_history) = k
          IN  /\ Len(opt'.best_point_history) = Len(opt.best_point_history) + 1
              /\ SubSeq(opt'.best_point_history, 1, Len(opt.best_point_history))
                     = opt.best_point_history
              /\ opt'.iteration = opt.iteration + 1
              /\ Len(opt'.convergence_buffer) = Min(Len(opt.convergence_buffer) + 1, opt.maxlen)
              /\ opt.maxlen > 0 =>
                     opt'.convergence_buffer[Len(opt'.convergence_buffer)]
                         = opt'.best_point_history[Len(opt'.best_point_history)][2]
              /\ opt.iteration = 0 =>
                     /\ res'.ret.qEI = "None"
                     /\ opt'.gp_loglikelihood.initialized
                     /\ opt'.gp_loglikelihood.points_sampled = res'.ret.sampling_points
              /\ opt.iteration # 0 => res'.ret.qEI # "None"
              /\ \A k \in 0..MaxCalls :
                     stepped_only(opt', k) =>
                         /\ opt'.iteration = k
                         /\ Len(opt'.convergence_buffer) = Min(k, opt'.maxlen)]_vars

\* the third step() of a fresh optimizer whose buffer holds two values
C23_Witness ==
    /\ opt.class = "BayesianMOEOptimizer"
    /\ res.op = "step"
    /\ opt.iteration = 3
    /\ Len(opt.calls) = 3
    /\ Len(opt.best_point_history) = 3
    /\ opt.maxlen = 2
    /\ Len(opt.convergence_buffer) = 2

\* C24: step() called once `completed` is true raises StopIteration, does not
\* call the objective and leaves history, iteration and batches as they were.
C24_StepAfterCompletedRaises ==
    [][(opt.class = "GridOptimizer" /\ completed(opt) /\ res'.op = "step") =>
          /\ ~res'.ret.ok
          /\ res'.ret.exc = "StopIteration"
          /\ opt'.calls = opt.calls
          /\ opt'.history = opt.history
          /\ opt'.iteration = opt.iteration
          /\ opt'.batches = opt.batches]_vars

\* StopIteration raised by a step() on a grid of several batches, all evaluated
C24_Witness ==
    /\ opt.class = "GridOptimizer"
    /\ res.op = "step"
    /\ ~res.ret.ok
    /\ res.ret.exc = "StopIteration"
    /\ completed(opt)
    /\ Len(opt.batches) > 1
    /\ Flatten(opt.calls) = opt.grid

\* C25: the normal compute_principal_dir returns, which quadratic_surf_rotation
\* passes to rotate_vec2vec(z, n), is (-df/dx, -df/dy, 1) normalized: its third
\* component is strictly positive, so it is never opposite to z, and it is z
\* exactly when both first partial derivatives of the quadric vanish at (x, y).
C25_NormalPointsUp ==
    res.op = "quadratic_surf_rotation" =>
        LET z == <<Zero, Zero, One>>
            fx == df_dx(res.args[1], res.args[2], res.args[4])
            fy == df_dy(res.args[1], res.args[2], res.args[4])
            n == res.ret.n
        IN  /\ res.ret.ok
            /\ RLess(Zero, n[3])
            /\ Dot(n, n) = One
            /\ Cross(n, <<RNeg(fx), RNeg(fy), One>>) = <<Zero, Zero, Zero>>
            /\ n # VScale(z, RNeg(One))
            /\ Cross(z, n) = <<Zero, Zero, Zero>> <=> (fx = Zero /\ fy = Zero)
            /\ n = z <=> (fx = Zero /\ fy = Zero)

\* a tilted normal off the origin of a curved quadric
C25_Witness ==
    /\ res.op = "quadratic_surf_rotation"
    /\ res.ret.ok
    /\ res.args[1] # Zero
    /\ res.args[4][5] # Zero
    /\ df_dx(res.args[1], res.args[2], res.args[4]) # Zero
    /\ res.ret.n[1] # Zero
    /\ MFinite(<<res.ret.pp>>)

HalfTurn == <<180, 1>>

\* C26: with the default period of 90, interpolate_angle(u, v, t + 180) is
\* -interpolate_angle(u, v, t); so, for the same (x, y), place_coil at
\* theta = 180 returns the pose of theta = 0 with its x and y axes negated and
\* the same z axis and position, a pose distinct from it where it is finite.
C26_HalfTurnNegates ==
    (res.op \in {"place_coil", "place_coil/4"} /\ res.ret.ok /\ res.args[3] = HalfTurn) =>
        LET flip_norm == IF res.op = "place_coil" THEN res.args[4] ELSE FlipNormDefault
            start == place_coil(dom, mesh, res.args[1], res.args[2], Zero, flip_norm)
            negated(u, v, t) ==
                interpolate_angle(u, v, RAdd(t, HalfTurn), DefaultPeriod)
                    = VNeg(interpolate_angle(u, v, t, DefaultPeriod))
        IN  /\ \A u \in UnitVecs2, v \in UnitVecs2, t \in Thetas :
                   Dot(u, v) = Zero => negated(u, v, t)
            /\ start.ok
            /\ PoseAxis(res.ret.pose, 1) = VNeg(PoseAxis(start.pose, 1))
            /\ PoseAxis(res.ret.pose, 2) = VNeg(PoseAxis(start.pose, 2))
            /\ PoseAxis(res.ret.pose, 3) = PoseAxis(start.pose, 3)
            /\ PosePosition(res.ret.pose) = PosePosition(start.pose)
            /\ res.ret.pose[4] = start.pose[4]
            /\ MFinite(res.ret.pose) => res.ret.pose # start.pose

\* a finite pose at theta = 180 off the anchor
C26_Witness ==
    /\ Returned("place_coil")
    /\ res.args[3] = HalfTurn
    /\ MFinite(res.ret.pose)
    /\ res.args[1] # Zero
    /\ PoseAxis(res.ret.pose, 2) # VNeg(PoseAxis(res.ret.pose, 2))

\* C21: FieldFunc.evaluate returns one score per input (x, y, theta) triple,
\* in the order of the inputs and as score values, whatever the order in which
\* the pool's workers finished the jobs.
\* The list is in input order and has one entry per input, but the entries are
\* the ApplyResult objects of apply_async, and a single input raises IndexError.
C21_ScoresInInputOrder ==
    Called("evaluate") =>
        LET input_list == res.args[1]
            score(input) == compute_score(solve_squeeze(<<prepare_tms_matrix(transform_input(input)).b>>).columns[1], <<>>)
        IN  /\ res.ret.ok
            /\ Len(res.ret.scores) = Len(input_list)
            /\ \A i \in 1..Len(input_list) : res.ret.scores[i] = Float(score(input_list[i]))

\* what evaluate does return: for two or more inputs, one ApplyResult per
\* input, in input order, each holding the score of its input
C21_ApplyResultsInInputOrder ==
    Called("evaluate") =>
        LET input_list == res.args[1]
            score(input) == compute_score(solve_squeeze(<<prepare_tms_matrix(transform_input(input)).b>>).columns[1], <<>>)
        IN  IF Len(input_list) = 1
            THEN ~res.ret.ok /\ res.ret.exc = "IndexError"
            ELSE /\ res.ret.ok
                 /\ Len(res.ret.scores) = Len(input_list)
                 /\ \A i \in 1..Len(input_list) :
                        res.ret.scores[i] = ApplyResult(i, score(input_list[i]))

\* evaluate returned for inputs whose score jobs finished out of order
C21_Witness ==
    /\ Returned("evaluate")
    /\ Len(res.args[1]) = 3
    /\ res.order = <<2, 3, 1>>
    /\ res.args[1][1] # res.args[1][2]

====
